---- MODULE Spec2Model ----
(***************************************************************************)
(* Derivatives analytics and portfolio risk engine of the trading system.  *)
(*                                                                         *)
(* The engine's operations are synchronous functions of their arguments.   *)
(* A behaviour of the model is one call: `op` names the operation, `args`  *)
(* holds the arguments it is called with, `pc` tells whether it has run    *)
(* and `result` is what it returned (or that it raised).  Every action     *)
(* models one whole call.                                                  *)
(*                                                                         *)
(* EstimatorSpec is the Monte Carlo estimator called by several callers    *)
(* whose calls interleave: `callers` holds each caller's position in       *)
(* monte_carlo_probability and its local variables, `history` the calls    *)
(* that have returned.                                                     *)
(*                                                                         *)
(* MonitorSpec is a risk monitor in use: one evaluation after another,     *)
(* with alerts raised and cleared, trend points added and days passing in  *)
(* between.  The monitor's fields are variables of their own, `clock` is   *)
(* the day datetime.now() reads, and `history` is the sequence of the      *)
(* evaluations that have returned.                                         *)
(*                                                                         *)
(* OrchestratorSpec is the orchestrator of main.py at work: the scanning,   *)
(* trade-management and risk-monitoring threads and the main coordination  *)
(* loop, whose steps interleave, on the open positions of one account, the *)
(* opportunity queue and the list of risk alerts.  `workers` holds each    *)
(* thread's position in its loop and its local variables, `handled` the    *)
(* number of calls of handle_risk_alert made with each alert.              *)
(*                                                                         *)
(* Numbers: money is an integer number of dollars, percentages and ratios  *)
(* are exact quotients kept as [num, den] records and compared by cross    *)
(* multiplication, the volatility index is kept in tenths of a point.      *)
(***************************************************************************)
EXTENDS Integers, Sequences, FiniteSets, TLC

VARIABLES op, args, pc, result, callers, history, active_alerts, alert_history, risk_trend, last_risk_assessment, clock, account_positions, opportunity_queue, risk_alerts, workers, handled

vars == <<op, args, pc, result, callers, history, active_alerts, alert_history, risk_trend, last_risk_assessment, clock, account_positions, opportunity_queue, risk_alerts, workers, handled>>

\* the orchestrator's shared collections, its workers and the record of the
\* alerts handled
orchestrator == <<account_positions, opportunity_queue, risk_alerts, workers, handled>>

\* the fields in which the risk monitor keeps what it has reported
monitor_fields == <<active_alerts, alert_history, risk_trend, last_risk_assessment>>

\* what a single call of Spec leaves alone
outside_call == <<callers, history, monitor_fields, clock, orchestrator>>

\* what the callers of EstimatorSpec leave alone
single_call == <<op, args, pc, result, monitor_fields, clock, orchestrator>>

(***************************************************************************)
(* Bounds of the model                                                     *)
(***************************************************************************)
\* largest number of entries of a positions map handed to the risk monitor
MaxPositions == 3

\* largest number of automated alerts handed to the combiner
MaxAlerts == 2

\* largest number of open positions when a trade is put up for approval
MaxOpen == 6

\* largest number of positions handed to the trade manager
MaxManaged == 2

\* most positions of the portfolio whose metrics are calculated
MaxHeld == 2

\* largest number of contracts priced in one batch of the pricing kernel
MaxBatch == 2

\* most trades the main thread of the orchestrator executes
MaxOpened == 2

\* most alerts the risk-monitoring thread of the orchestrator raises
MaxRaised == 2

\* largest number of alerts, and of trend points, a monitor in use has
\* put on record
MaxRecorded == 2

\* the last day of the clock of a monitor in use
MaxClock == 7

\* largest number of legs of a position, and of strikes handed to the
\* probability estimator
MaxLegs == 3

\* number of simulated terminal prices (5000 and 10000 in the code)
NSimulations == 5

\* largest number of returned calls kept in the history
MaxHistory == 3

\* number of concurrent callers of the Monte Carlo estimator
NumCallers == 2

(***************************************************************************)
(* Generic helpers                                                         *)
(***************************************************************************)
Abs(x) == IF x < 0 THEN -x ELSE x

\* the elements of a list, as a set
SeqToSet(s) == {s[i] : i \in 1..Len(s)}

\* no value occurs twice in the list
NoDuplicates(s) == \A i, j \in 1..Len(s) : s[i] = s[j] => i = j

\* all lists over S of length at most n
SeqsUpTo(S, n) == UNION {[1..k -> S] : k \in 0..n}

(***************************************************************************)
(* RiskAssessment (deepseek_analyst.py)                                    *)
(***************************************************************************)
RiskAssessment(level, msg, concerns, recs) ==
    [alert_level |-> level, message |-> msg,
     concerns |-> concerns, recommendations |-> recs]

(***************************************************************************)
(* AccountRiskMonitor._analyze_market_condition                            *)
(***************************************************************************)
\* _get_vix_level() of the shipped code: 18.5, in tenths
DefaultVix == 185

\* market_data.get('vix', 20): the fallback when the record has no vix
MissingVixDefault == 200

\* vix < 25 and vix > 30, in tenths
BullishVixCeiling == 250

BearishVixFloor == 300

Trends == {"bullish", "bearish", "neutral"}

\* volatility-index readings on both sides of each limit
VixLevels == {150, DefaultVix, 249, 250, 251, 300, 301, 350}

\* a market-conditions record; either key may be missing
MarketConditions ==
    [vix : VixLevels, market_trend : Trends] \cup [vix : VixLevels]
        \cup [market_trend : Trends]

\* a market-conditions provider that raises, or whose vix does not compare
\* with a number
FailedMarketConditions == [raises |-> TRUE]

\* _get_market_conditions() of the shipped code
DefaultMarketConditions == [vix |-> DefaultVix, market_trend |-> "bullish"]

\* the classification with the volatility test lost: the trend alone decides
AnalyzeMarketConditionTrendOnly(market_data) ==
    LET trend == IF "market_trend" \in DOMAIN market_data
                 THEN market_data.market_trend ELSE "neutral"
    IN  IF trend = "bullish" THEN "bullish"
        ELSE IF trend = "bearish" THEN "bearish"
        ELSE "neutral"

_analyze_market_condition(market_data) ==
    LET vix   == IF "vix" \in DOMAIN market_data THEN market_data.vix
                 ELSE MissingVixDefault
        trend == IF "market_trend" \in DOMAIN market_data
                 THEN market_data.market_trend ELSE "neutral"
    IN  IF trend = "bullish" /\ vix < BullishVixCeiling THEN "bullish"
        ELSE IF trend = "bearish" \/ vix > BearishVixFloor THEN "bearish"
        ELSE "neutral"

(***************************************************************************)
(* AccountRiskMonitor.assess_portfolio_risk                                *)
(*                                                                         *)
(* A positions map is the list of its values in insertion order.  A value  *)
(* is FalsyPosition (None or {}, skipped), MalformedPosition (truthy, but  *)
(* its fields make the arithmetic of the loop body raise, which the inner  *)
(* handler skips), or a record, with or without a strategy_type key.       *)
(***************************************************************************)
FalsyPosition == [kind |-> "falsy"]

MalformedPosition == [kind |-> "malformed"]

\* contracts held: short, none (also the default of a missing key), long
Quantities == {-1, 0, 1}

EntryPrices == {1, 4}

StrategyTags == {"theta_decay", "credit_spread"}

PositionRecords ==
    [quantity : Quantities, entry_price : EntryPrices, strategy_type : StrategyTags]
        \cup [quantity : Quantities, entry_price : EntryPrices]

PositionValues == PositionRecords \cup {FalsyPosition, MalformedPosition}

Portfolios == SeqsUpTo(PositionValues, MaxPositions)

\* shares per contract
ContractMultiplier == 100

\* concentration > 40 raises a concern
ConcernPercent == 40

\* risk_score >= 8, >= 5, >= 3 and the cap min(10, ...)
CriticalScore == 8

HighScore == 5

ModerateScore == 3

MaxScore == 10

\* position.get('strategy_type', 'unknown')
StrategyOf(position) ==
    IF "strategy_type" \in DOMAIN position THEN position.strategy_type
    ELSE "unknown"

\* quantity * entry_price * 100
PositionValue(position) ==
    position.quantity * position.entry_price * ContractMultiplier

\* dict.get(strategy, 0) on the insertion-ordered list of [strategy, value]
DictGet(d, k) ==
    IF \E i \in 1..Len(d) : d[i].strategy = k
    THEN LET i == CHOOSE i \in 1..Len(d) : d[i].strategy = k IN d[i].value
    ELSE 0

\* d[k] = v: replaces in place, or appends a new key at the end
DictPut(d, k, v) ==
    IF \E i \in 1..Len(d) : d[i].strategy = k
    THEN [i \in 1..Len(d) |->
            IF d[i].strategy = k THEN [strategy |-> k, value |-> v] ELSE d[i]]
    ELSE Append(d, [strategy |-> k, value |-> v])

\* the loop over positions.items(): total_invested and strategy_concentration
RECURSIVE AccumulatePositions(_, _, _)
AccumulatePositions(positions, i, acc) ==
    IF i > Len(positions) THEN acc
    ELSE LET position == positions[i] IN
         IF position = FalsyPosition \/ position = MalformedPosition
         THEN AccumulatePositions(positions, i + 1, acc)
         ELSE LET value    == PositionValue(position)
                  strategy == StrategyOf(position)
              IN  AccumulatePositions(positions, i + 1,
                    [total_invested |-> acc.total_invested + value,
                     strategy_concentration |->
                        DictPut(acc.strategy_concentration, strategy,
                                DictGet(acc.strategy_concentration, strategy) + value)])

\* (value / total_invested) * 100 if total_invested > 0 else 0, as a quotient
Concentration(value, total_invested) ==
    IF total_invested > 0 THEN [num |-> value * 100, den |-> total_invested]
    ELSE [num |-> 0, den |-> 1]

\* comparisons of a quotient (den > 0) with an integer
RatGT(r, k) == r.num > k * r.den

RatGE(r, k) == r.num >= k * r.den

RatMax(r, s) == IF r.num * s.den >= s.num * r.den THEN r ELSE s

\* "{x:.1f}": the quotient in tenths, rounded half to even
FormatTenths(r) ==
    LET n == r.num * 10
        q == n \div r.den
        m == n % r.den
    IN  IF 2 * m < r.den THEN q
        ELSE IF 2 * m > r.den THEN q + 1
        ELSE IF q % 2 = 0 THEN q ELSE q + 1

\* f"High concentration in {strategy}: {concentration:.1f}%"
ConcentrationConcern(strategy, concentration) ==
    [text |-> "High concentration in", strategy |-> strategy,
     percent_tenths |-> FormatTenths(concentration)]

\* the loop over strategy_concentration.items()
RECURSIVE ConcentrationLoop(_, _, _, _)
ConcentrationLoop(d, total_invested, i, acc) ==
    IF i > Len(d) THEN acc
    ELSE LET concentration == Concentration(d[i].value, total_invested) IN
         ConcentrationLoop(d, total_invested, i + 1,
            [max_concentration |-> RatMax(acc.max_concentration, concentration),
             concentration_concerns |->
                IF RatGT(concentration, ConcernPercent)
                THEN Append(acc.concentration_concerns,
                            ConcentrationConcern(d[i].strategy, concentration))
                ELSE acc.concentration_concerns])

\* risk_score = min(10, max_concentration / 10), as a quotient
RiskScore(max_concentration) ==
    IF RatGE(max_concentration, 10 * MaxScore) THEN [num |-> MaxScore, den |-> 1]
    ELSE [num |-> max_concentration.num, den |-> max_concentration.den * 10]

\* the engine's concentration-only assessment; market_data is what
\* _get_market_conditions() returns during the call
assess_portfolio_risk(positions, market_data) ==
    IF Len(positions) = 0
    THEN IF market_data = FailedMarketConditions
         THEN RiskAssessment(0, "Risk assessment error", <<"str(e)">>, <<>>)
         ELSE IF _analyze_market_condition(market_data) = "bullish"
         THEN RiskAssessment(1,
                "Bullish market with no positions - consider strategic entries",
                <<"No open positions", "Missing potential income opportunities">>,
                <<"Consider opening positions in bullish market",
                  "Start with small defined-risk trades">>)
         ELSE RiskAssessment(0,
                "Portfolio is empty - ready for new opportunities", <<>>, <<>>)
    ELSE LET sums == AccumulatePositions(positions, 1,
                        [total_invested |-> 0, strategy_concentration |-> <<>>])
             conc == ConcentrationLoop(sums.strategy_concentration,
                        sums.total_invested, 1,
                        [max_concentration |-> [num |-> 0, den |-> 1],
                         concentration_concerns |-> <<>>])
             risk_score == RiskScore(conc.max_concentration)
         IN  IF RatGE(risk_score, CriticalScore)
             THEN RiskAssessment(8, "Critical concentration risk",
                    conc.concentration_concerns,
                    <<"Reduce position concentration", "Diversify across strategies">>)
             ELSE IF RatGE(risk_score, HighScore)
             THEN RiskAssessment(5, "High concentration risk",
                    conc.concentration_concerns,
                    <<"Consider diversifying positions">>)
             ELSE IF RatGE(risk_score, ModerateScore)
             THEN RiskAssessment(3, "Moderate concentration risk",
                    conc.concentration_concerns,
                    <<"Monitor position concentration">>)
             ELSE RiskAssessment(0, "Low risk portfolio", <<>>, <<>>)

(***************************************************************************)
(* RiskLevel, RiskAlert and AccountRiskMonitor._combine_risk_assessments   *)
(***************************************************************************)
\* RiskLevel.X.value
RiskLevelValue ==
    [NORMAL |-> 0, CAUTION |-> 1, WARNING |-> 2, CRITICAL |-> 3]

RiskLevels == DOMAIN RiskLevelValue

\* the strings of concerns and alert messages, and of recommendations and
\* alert actions; both sources can produce the same string
ConcernStrings == {"High margin usage: 60.0%", "API connectivity issue"}

\* the action lists an alert can carry
AlertActionLists == {<<"Close positions">>, <<"Hedge delta", "Close positions">>}

RiskAlerts ==
    [level : RiskLevels, message : ConcernStrings, actions : AlertActionLists]

\* alert levels a qualitative assessment can carry: the advisor's reply is
\* taken as is (response.get('alert_level', 0)), so values outside 0..10
\* are possible
QualitativeLevels == {-1, 0, 2, 10, 11}

QualitativeConcerns ==
    {<<>>, <<"API connectivity issue">>,
     <<"API connectivity issue", "API connectivity issue">>,
     <<"High margin usage: 60.0%", "API connectivity issue">>}

QualitativeRecommendations ==
    {<<>>, <<"Close positions">>, <<"Close positions", "Close positions">>,
     <<"Hedge delta", "Close positions">>}

QualitativeAssessments ==
    [alert_level : QualitativeLevels, message : {"Summary risk assessment"},
     concerns : QualitativeConcerns, recommendations : QualitativeRecommendations]

\* what the advisor client returns when its service call fails
\* (_get_fallback_response("risk_assessment"))
FallbackAssessment ==
    RiskAssessment(0, "Fallback: No risk assessment available",
        <<"API connectivity issue">>, <<"Check API connection">>)

\* no assessment object at all (None)
NoAssessment == [none |-> TRUE]

\* the loop with the level comparison lost: the last alert's level wins
RECURSIVE CombineLoopLastWins(_, _, _)
CombineLoopLastWins(automated_alerts, i, acc) ==
    IF i > Len(automated_alerts) THEN acc
    ELSE LET alert == automated_alerts[i] IN
         CombineLoopLastWins(automated_alerts, i + 1,
            [final_alert_level |-> RiskLevelValue[alert.level],
             final_concerns |-> Append(acc.final_concerns, alert.message),
             final_recommendations |-> acc.final_recommendations \o alert.actions])

\* the body of "for alert in automated_alerts"
RECURSIVE CombineLoop(_, _, _)
CombineLoop(automated_alerts, i, acc) ==
    IF i > Len(automated_alerts) THEN acc
    ELSE LET alert == automated_alerts[i] IN
         CombineLoop(automated_alerts, i + 1,
            [final_alert_level |->
                IF RiskLevelValue[alert.level] > acc.final_alert_level
                THEN RiskLevelValue[alert.level]
                ELSE acc.final_alert_level,
             final_concerns |-> Append(acc.final_concerns, alert.message),
             final_recommendations |-> acc.final_recommendations \o alert.actions])

\* all lists that hold each element of S exactly once
ListsOfSet(S) ==
    {l \in [1..Cardinality(S) -> S] : SeqToSet(l) = S}

\* the duplicate removal left out: the list as it was built
DeduplicateNothing(l) == {l}

\* list(set(l)): the elements of l once each, in an order the set decides
Deduplicate(l) == ListsOfSet(SeqToSet(l))

\* the assessment object as the call leaves it: the loop appends to copies
\* (concerns.copy(), recommendations.copy()), never to the object's lists
AssessmentAfterCombine(deepseek_assessment, final) == deepseek_assessment

\* the possible outcomes of _combine_risk_assessments: the returned
\* assessment together with the input object after the call
_combine_risk_assessments(deepseek_assessment, automated_alerts) ==
    IF deepseek_assessment = NoAssessment
    THEN {[raised |-> "AttributeError", deepseek_assessment |-> NoAssessment]}
    ELSE LET final == CombineLoop(automated_alerts, 1,
                        [final_alert_level |-> deepseek_assessment.alert_level,
                         final_concerns |-> deepseek_assessment.concerns,
                         final_recommendations |->
                            deepseek_assessment.recommendations])
         IN  {[raised |-> "no",
               alert_level |-> final.final_alert_level,
               message |-> deepseek_assessment.message,
               concerns |-> c,
               recommendations |-> r,
               deepseek_assessment |->
                    AssessmentAfterCombine(deepseek_assessment, final)] :
                c \in Deduplicate(final.final_concerns),
                r \in Deduplicate(final.final_recommendations)}

(***************************************************************************)
(* AccountRiskMonitor._calculate_risk_score                                *)
(*                                                                         *)
(* Greeks are whole numbers, sector concentrations and margin usage are in *)
(* percent (0.3 is 30), the score is an exact quotient [num, den].         *)
(***************************************************************************)
\* self.thresholds, the two fractions in percent
DefaultThresholds ==
    [buying_power_usage |-> 70, margin_usage |-> 50, max_drawdown |-> 10,
     sector_concentration |-> 30, portfolio_delta |-> 100,
     portfolio_gamma |-> 50, portfolio_vega |-> 200,
     position_concentration |-> 20]

\* self.thresholds as set by __init__, and with limits switched off (set to 0)
\* afterwards
MonitorThresholds ==
    {DefaultThresholds,
     [DefaultThresholds EXCEPT !.portfolio_gamma = 0, !.margin_usage = 0],
     [DefaultThresholds EXCEPT !.portfolio_delta = 0, !.portfolio_gamma = 0,
         !.portfolio_vega = 0, !.sector_concentration = 0, !.margin_usage = 0]}

\* the default of risk_parameters.get('max_open_positions', 5)
DefaultMaxOpenPositions == 5

\* self.risk_parameters.get('max_open_positions', 5)
MaxOpenPositions(risk_parameters) ==
    IF "max_open_positions" \in DOMAIN risk_parameters
    THEN risk_parameters.max_open_positions
    ELSE DefaultMaxOpenPositions

RECURSIVE GCD(_, _)
GCD(a, b) == IF b = 0 THEN Abs(a) ELSE GCD(b, a % b)

\* a quotient in lowest terms, den > 0
Rat(n, d) ==
    LET g == GCD(Abs(n), d) IN
    IF g = 0 THEN [num |-> 0, den |-> 1] ELSE [num |-> n \div g, den |-> d \div g]

RatAdd(r, s) == Rat(r.num * s.den + s.num * r.den, r.den * s.den)

\* min(x / threshold, 1.0), threshold > 0
CappedRatio(x, threshold) ==
    IF x >= threshold THEN Rat(1, 1) ELSE Rat(x, threshold)

RECURSIVE RatSum(_)
RatSum(scores) ==
    IF Len(scores) = 0 THEN Rat(0, 1)
    ELSE RatAdd(Head(scores), RatSum(Tail(scores)))

\* greeks.get(k, 0)
GreekOf(greeks, k) == IF k \in DOMAIN greeks THEN greeks[k] ELSE 0

\* max(sector_conc.values()) if sector_conc else 0
MaxSectorConcentration(sector_conc) ==
    IF DOMAIN sector_conc = {} THEN 0
    ELSE LET vals == {sector_conc[k] : k \in DOMAIN sector_conc}
         IN  CHOOSE m \in vals : \A v \in vals : v <= m

\* scores.append(x) when the condition holds
AppendIf(scores, cond, x) == IF cond THEN Append(scores, x) ELSE scores

_calculate_risk_score(thresholds, risk_parameters, greeks, sector_conc, margin_usage, position_count) ==
    LET s1 == AppendIf(<<>>, thresholds.portfolio_delta > 0,
                CappedRatio(Abs(GreekOf(greeks, "delta")),
                            thresholds.portfolio_delta))
        s2 == AppendIf(s1, thresholds.portfolio_gamma > 0,
                CappedRatio(Abs(GreekOf(greeks, "gamma")),
                            thresholds.portfolio_gamma))
        s3 == AppendIf(s2, thresholds.portfolio_vega > 0,
                CappedRatio(Abs(GreekOf(greeks, "vega")),
                            thresholds.portfolio_vega))
        max_sector_conc == MaxSectorConcentration(sector_conc)
        s4 == AppendIf(s3, thresholds.sector_concentration > 0,
                CappedRatio(max_sector_conc, thresholds.sector_concentration))
        s5 == AppendIf(s4, thresholds.margin_usage > 0,
                CappedRatio(margin_usage, thresholds.margin_usage))
        max_positions == MaxOpenPositions(risk_parameters)
        scores == AppendIf(s5, max_positions > 0,
                CappedRatio(position_count, max_positions))
        total == RatSum(scores)
    IN  IF Len(scores) = 0 THEN Rat(0, 1)
        ELSE Rat(total.num, total.den * Len(scores))

\* inputs of the risk score
GreekMaps ==
    [delta : {-150, 0, 50}, gamma : {0, 60}, vega : {0, 100}]
        \cup [delta : {-150, 50}]

SectorPercents == {-50, 0, 15, 50}

SectorMaps ==
    [{"technology", "etf"} -> SectorPercents] \cup [{"technology"} -> SectorPercents]
        \cup {[x \in {} |-> 0]}

MarginUsagePercents == {-100, 0, 25, 60}

RiskParameters ==
    [max_open_positions : {0, 3, 5}, max_risk_per_trade : {100}]
        \cup [max_risk_per_trade : {100}]

(***************************************************************************)
(* AccountRiskMonitor._check_automated_triggers                            *)
(*                                                                         *)
(* Usages, drawdown and sector concentrations are in percent, account      *)
(* values in dollars, a timestamp is the day of the clock.  The message of *)
(* an alert is its text and the figure formatted into it.                  *)
(***************************************************************************)
RiskAlert(level, message, triggered_by, timestamp, actions, confidence) ==
    [level |-> level, message |-> message, triggered_by |-> triggered_by,
     timestamp |-> timestamp, actions |-> actions, confidence |-> confidence]

\* f"{text}: {x:.1%}", x a quotient
PercentMessage(text, x) ==
    [text |-> text, figure |-> FormatTenths(Rat(x.num * 100, x.den))]

\* the append with hysteresis: nothing is added while an alert is active
AlertIfNoneActive(alerts, fires, alert) ==
    IF fires /\ active_alerts = <<>> THEN Append(alerts, alert) ELSE alerts

\* alerts.append(alert) when the trigger fires
AlertIf(alerts, fires, alert) == IF fires THEN Append(alerts, alert) ELSE alerts

\* the Greek exposures are checked for delta alone
_check_automated_triggers(thresholds, metrics, open_positions, now) ==
    LET bp_usage ==
            IF metrics.total_value > 0
            THEN Rat(metrics.total_value - metrics.buying_power,
                     metrics.total_value)
            ELSE Rat(0, 1)
        a1 == AlertIf(<<>>,
                bp_usage.num * 100 > thresholds.buying_power_usage * bp_usage.den,
                RiskAlert("WARNING",
                    PercentMessage("High buying power usage", bp_usage),
                    "buying_power", now,
                    <<"Reduce position sizes", "Close some positions">>, 90))
        a2 == AlertIf(a1, metrics.margin_usage > thresholds.margin_usage,
                RiskAlert("CRITICAL",
                    PercentMessage("High margin usage",
                                   Rat(metrics.margin_usage, 100)),
                    "margin_usage", now,
                    <<"Immediately reduce margin usage", "Close positions">>, 95))
        max_sector == MaxSectorConcentration(metrics.sector_concentration)
        a3 == AlertIf(a2, max_sector > thresholds.sector_concentration,
                RiskAlert("WARNING",
                    PercentMessage("High sector concentration",
                                   Rat(max_sector, 100)),
                    "sector_concentration", now,
                    <<"Diversify sectors", "Reduce concentrated positions">>, 80))
    IN  AlertIf(a3,
            Abs(GreekOf(metrics.portfolio_greeks, "delta"))
                > thresholds.portfolio_delta,
            RiskAlert("WARNING",
                [text |-> "High delta exposure",
                 figure |-> GreekOf(metrics.portfolio_greeks, "delta")],
                "delta_exposure", now,
                <<"Hedge delta", "Close directional positions">>, 85))

\* the metrics handed to the triggers
AccountValues ==
    {[total_value |-> 0, buying_power |-> 0]}
        \cup [total_value : {1000}, buying_power : {200, 300, 1000}]

TriggerGreeks ==
    [delta : {-150, 50, 100}, gamma : {0, 60}, vega : {0, 250}]
        \cup {[gamma |-> 60]}

TriggerSectors ==
    [{"technology"} -> {15, 30, 50}] \cup {[x \in {} |-> 0]}

PortfolioMetrics ==
    {[total_value |-> a.total_value, buying_power |-> a.buying_power,
      margin_usage |-> m, max_drawdown |-> d, portfolio_greeks |-> g,
      sector_concentration |-> c] :
        a \in AccountValues, m \in {25, 50, 60}, d \in {5, 15},
        g \in TriggerGreeks, c \in TriggerSectors}

\* open_positions: the triggers do not look at it
TriggerPositions ==
    {<<>>, <<[current_value |-> 100, sector |-> "technology"]>>}

(***************************************************************************)
(* The fields of AccountRiskMonitor and the methods that write them        *)
(*                                                                         *)
(* The clock counts days; datetime.now() is its reading.                   *)
(***************************************************************************)
\* the fields after __init__
NoAlerts == <<>>

\* assessment.alert_level from which an alert is CRITICAL
CriticalAlertLevel == 7

\* timedelta(days=7): the age at which a trend point is dropped
TrendDays == 7

\* the alert _trigger_risk_alert appends to active_alerts and alert_history
_trigger_risk_alert(assessment, now) ==
    RiskAlert(IF assessment.alert_level >= CriticalAlertLevel
                THEN "CRITICAL" ELSE "WARNING",
              assessment.message, "combined_assessment", now,
              assessment.recommendations, 80)

\* risk_trend after _update_risk_trend(assessment, risk_score)
_update_risk_trend(trend, assessment, risk_score, now) ==
    LET trend_point == [timestamp |-> now,
                        risk_level |-> assessment.alert_level,
                        risk_score |-> risk_score,
                        concerns |-> assessment.concerns]
        cutoff == now - TrendDays
    IN  SelectSeq(Append(trend, trend_point),
                  LAMBDA point : point.timestamp > cutoff)

(***************************************************************************)
(* JAXRealTimeAnalytics.monte_carlo_probability                            *)
(*                                                                         *)
(* An array argument is [rank, v]: v lists its elements, rank 0 is the     *)
(* shape () of jnp.array(x) and rank 1 the shape (n,) of a list.           *)
(* Prices are whole dollars, r and sigma are in                            *)
(* percent, T is in whole years with a whole square root.  A probability   *)
(* is an exact quotient [num, den].                                        *)
(***************************************************************************)
Scalar(x) == [rank |-> 0, v |-> <<x>>]

Vector(l) == [rank |-> 1, v |-> l]

\* the seed of random.PRNGKey(42)
Seed == 42

\* a key carried from one call to the next: every returned call advances it
PRNGKeyCarried(seed) == seed + Cardinality(history)

\* random.PRNGKey(seed): the key is a function of the seed alone
PRNGKey(seed) == seed

\* random.normal(key, (n,))[i]: draw i is a function of the key and of i;
\* with the key of seed 42 the first five draws sweep -2..2 standard
\* deviations
NormalDraw(key, i) == ((key + i) % 7) - 3

\* whole square root
Isqrt(n) == CHOOSE k \in 0..n : k * k <= n /\ (k + 1) * (k + 1) > n

\* 100 * exp((r - 0.5 sigma^2) T + sigma sqrt(T) z), the exponential
\* replaced by 1 + x
GrowthPercent(T_val, sigma_val, r_val, z) ==
    100 + (r_val - (sigma_val * sigma_val) \div 200) * T_val
        + sigma_val * Isqrt(T_val) * z

\* ST of draw i
TerminalPrice(key, S_val, T_val, sigma_val, r_val, i) ==
    (S_val * GrowthPercent(T_val, sigma_val, r_val, NormalDraw(key, i))) \div 100

\* single_simulation: jnp.mean(ST > K_val), with the key of the enclosing
\* call
single_simulation(key, S_val, K_val, T_val, sigma_val, r_val, n_simulations) ==
    Rat(Cardinality({i \in 1..n_simulations :
            TerminalPrice(key, S_val, T_val, sigma_val, r_val, i) > K_val}),
        n_simulations)

\* vmap maps every argument along axis 0: an argument of rank 0, or
\* arguments of different lengths, make it raise ValueError
CanVmap(arrays) ==
    /\ \A i \in 1..Len(arrays) : arrays[i].rank = 1
    /\ \A i, j \in 1..Len(arrays) : Len(arrays[i].v) = Len(arrays[j].v)

\* vmap(single_simulation)((S, K, T, sigma, r)) with the key of the call:
\* the per-lane probabilities, or the call raised
SimulateLanes(key, S, K, T, sigma, r, n_simulations) ==
    IF ~CanVmap(<<S, K, T, sigma, r>>)
    THEN [raised |-> TRUE, probabilities |-> <<>>]
    ELSE [raised |-> FALSE,
          probabilities |->
            [i \in 1..Len(K.v) |->
                single_simulation(key, S.v[i], K.v[i], T.v[i], sigma.v[i],
                                  r.v[i], n_simulations)]]

\* key = random.PRNGKey(42), then the simulation
monte_carlo_probability(S, K, T, sigma, r, n_simulations) ==
    SimulateLanes(PRNGKey(Seed), S, K, T, sigma, r, n_simulations)

(***************************************************************************)
(* JAXRealTimeAnalytics._calculate_pop                                     *)
(***************************************************************************)
\* the default probability 0.5
DefaultPop == Rat(1, 2)

RatSub(r, s) == Rat(r.num * s.den - s.num * r.den, r.den * s.den)

RatMul(r, s) == Rat(r.num * s.num, r.den * s.den)

\* the outcome of a block of code: it raised, or it returned a value
Raised == [raised |-> TRUE]

Returned(value) == [raised |-> FALSE, value |-> value]

\* the try block of _calculate_pop without the check for an empty strikes
\* array: position['strategy_type'] and position['break_even_price'] raise
\* KeyError when missing, monte_carlo_probability raises ValueError
EstimatePopOfStrikes(position, S, strikes, T, sigma, r) ==
    IF "strategy_type" \notin DOMAIN position THEN Raised
    ELSE IF position.strategy_type = "CREDIT_SPREAD"
    THEN IF Len(strikes) < 2 THEN Returned(DefaultPop)
         ELSE LET short_strike == strikes[1]
                  long_strike  == strikes[2]
                  pop == monte_carlo_probability(S,
                            Vector(<<short_strike, long_strike>>),
                            T, sigma, r, NSimulations)
              IN  IF pop.raised THEN Raised
                  ELSE Returned(RatSub(Rat(1, 1),
                              RatAdd(pop.probabilities[1],
                                     RatSub(Rat(1, 1), pop.probabilities[2]))))
    ELSE IF "break_even_price" \notin DOMAIN position THEN Raised
         ELSE LET pop == monte_carlo_probability(S,
                            Vector(<<position.break_even_price>>),
                            T, sigma, r, NSimulations)
              IN  IF pop.raised THEN Raised ELSE Returned(pop.probabilities[1])

\* the check for an empty strikes array left out
EstimatePopUnchecked(position, S, strikes, T, sigma, r) ==
    EstimatePopOfStrikes(position, S, strikes, T, sigma, r)

\* the try block of _calculate_pop
EstimatePop(position, S, strikes, T, sigma, r) ==
    IF Len(strikes) = 0 THEN Returned(DefaultPop)
    ELSE EstimatePopOfStrikes(position, S, strikes, T, sigma, r)

\* except Exception: return 0.5
_calculate_pop(position, S, strikes, T, sigma, r) ==
    LET body == EstimatePop(position, S, strikes, T, sigma, r)
    IN  IF body.raised THEN DefaultPop ELSE body.value

(***************************************************************************)
(* JAXRealTimeAnalytics._black_scholes_with_greeks and                     *)
(* calculate_position_metrics                                              *)
(*                                                                         *)
(* The kernel's figures are tabulated at S = 100, r = 5% for the strikes   *)
(* and option kinds of the model, at T = 1 and sigma = 20% and at the      *)
(* floor of either: prices in cents, Greeks in units of 1/10000 (theta per *)
(* day, vega and rho per point).  option_type is 1 for a call and -1 for a *)
(* put.  The kernel takes T and sigma in millionths (of a year, of 1.0).   *)
(***************************************************************************)
GreekMetrics(delta, gamma, theta, vega, rho) ==
    [delta |-> delta, gamma |-> gamma, theta |-> theta, vega |-> vega, rho |-> rho]

PositionMetrics(value, pop, ev, greeks) ==
    [theoretical_value |-> value, probability_profit |-> pop,
     expected_value |-> ev, greeks |-> greeks]

KernelFigures(price, delta, gamma, theta, vega, rho) ==
    [price |-> price, delta |-> delta, gamma |-> gamma, theta |-> theta,
     vega |-> vega, rho |-> rho]

LegStrikes == {90, 110}

OptionTypes == {1, -1}

\* one contract at S = 100, T = 1, r = 5%, sigma = 20%
BlackScholesAt(K_val, option_type) ==
    IF K_val = 90 /\ option_type = 1
    THEN KernelFigures(1670, 8097, 136, -162, 2716, 6427)
    ELSE IF K_val = 90
    THEN KernelFigures(231, -1903, 136, -45, 2716, -2134)
    ELSE IF option_type = 1
    THEN KernelFigures(604, 4496, 198, -162, 3958, 3892)
    ELSE KernelFigures(1068, -5504, 198, -18, 3958, -6571)

\* years and percent in the kernel's millionths
Years(y) == y * 1000000

VolPercent(percent) == percent * 10000

\* 1e-5, the floor of T and sigma
Epsilon == 10

\* the floor left out: T and sigma are taken as they come
Unclipped(x) == x

\* jnp.maximum(x, 1e-5)
Clip(x) == IF x < Epsilon THEN Epsilon ELSE x

\* the formulas where sigma * sqrt(t) is zero or sqrt(t) is not a number:
\* no figures are tabulated there
OutsideDomain == [undefined |-> TRUE]

\* one contract at S = 100, r = 5% with no more than 1e-5 years to run,
\* at any volatility
FiguresAtExpiry(K_val, option_type) ==
    IF K_val = 90 /\ option_type = 1
    THEN KernelFigures(1000, 10000, 0, -123, 0, 0)
    ELSE IF K_val = 110 /\ option_type = -1
    THEN KernelFigures(1000, -10000, 0, 151, 0, 0)
    ELSE KernelFigures(0, 0, 0, 0, 0, 0)

\* one contract at S = 100, T = 1, r = 5% at a volatility of no more than
\* 1e-5
FiguresWithoutVolatility(K_val, option_type) ==
    IF K_val = 90 /\ option_type = 1
    THEN KernelFigures(1439, 10000, 0, -117, 0, 8561)
    ELSE IF K_val = 110 /\ option_type = -1
    THEN KernelFigures(464, -10000, 0, 143, 0, -10464)
    ELSE KernelFigures(0, 0, 0, 0, 0, 0)

\* call_price = S * N(d1) - K * exp(-r * T) * N(d2) at S = 100, r = 5%, in
\* millionths of a dollar: with 1e-5 years to run or half of that, at T = 1
\* without volatility, and at T = 1, sigma = 20%
CallMicros(K_val, t, sigma_val) ==
    IF t <= Epsilon
    THEN IF K_val # 90 THEN 0
         ELSE IF t = Epsilon THEN 10000045 ELSE 10000022
    ELSE IF sigma_val <= Epsilon
    THEN IF K_val = 90 THEN 14389352 ELSE 0
    ELSE IF K_val = 90 THEN 16699448 ELSE 6040088

\* put_price = K * exp(-r * T) * N(-d2) - S * N(-d1), as CallMicros
PutMicros(K_val, t, sigma_val) ==
    IF t <= Epsilon
    THEN IF K_val # 110 THEN 0
         ELSE IF t = Epsilon THEN 9999945 ELSE 9999973
    ELSE IF sigma_val <= Epsilon
    THEN IF K_val = 110 THEN 4635237 ELSE 0
    ELSE IF K_val = 90 THEN 2310097 ELSE 10675325

\* the call's price returned for the puts as well
PriceOfCall(K_val, t, sigma_val, o_type) ==
    CallMicros(K_val, t, sigma_val)

\* jnp.where(option_type == 1.0, call_price, put_price)
PriceMicros(K_val, t, sigma_val, o_type) ==
    IF o_type = 1 THEN CallMicros(K_val, t, sigma_val)
    ELSE PutMicros(K_val, t, sigma_val)

\* the figures of one contract where the formulas are defined: the price
\* in cents and in millionths, and the Greeks
FiguresAt(k, t, sigma_val, o_type) ==
    IF t <= Epsilon THEN FiguresAtExpiry(k, o_type)
    ELSE IF sigma_val <= Epsilon THEN FiguresWithoutVolatility(k, o_type)
    ELSE BlackScholesAt(k, o_type)

\* price and Greeks of one contract from its own inputs (bs_price_single and
\* its derivatives)
bs_price_single(s, k, t, r_val, sigma_val, o_type) ==
    IF t <= 0 \/ sigma_val <= 0 THEN OutsideDomain
    ELSE FiguresAt(k, t, sigma_val, o_type)
            @@ [price_micros |-> PriceMicros(k, t, sigma_val, o_type)]

\* the batch with the first contract's volatility used for every contract
BlackScholesSharedVolatility(S, K, T, r, sigma, option_type) ==
    [i \in 1..Len(K) |->
        bs_price_single(S[i], K[i], Clip(T[i]), r[i], Clip(sigma[1]),
                        option_type[i])]

\* the figures of every contract of the batch, each from its own inputs
\* with T and sigma raised to the floor
_black_scholes_with_greeks(S, K, T, r, sigma, option_type) ==
    [i \in 1..Len(K) |->
        bs_price_single(S[i], K[i], Clip(T[i]), r[i], Clip(sigma[i]),
                        option_type[i])]

\* jnp.sum(figures * quantities)
RECURSIVE WeightedSum(_, _, _)
WeightedSum(figures, quantities, field) ==
    IF Len(figures) = 0 THEN 0
    ELSE Head(figures)[field] * Head(quantities)
            + WeightedSum(Tail(figures), Tail(quantities), field)

\* the sums with the contract multiplier applied to every figure
AggregateContracts(leg_greeks, quantities) ==
    [value |-> ContractMultiplier * WeightedSum(leg_greeks, quantities, "price"),
     delta |-> ContractMultiplier * WeightedSum(leg_greeks, quantities, "delta"),
     gamma |-> ContractMultiplier * WeightedSum(leg_greeks, quantities, "gamma"),
     theta |-> ContractMultiplier * WeightedSum(leg_greeks, quantities, "theta"),
     vega |-> ContractMultiplier * WeightedSum(leg_greeks, quantities, "vega"),
     rho |-> ContractMultiplier * WeightedSum(leg_greeks, quantities, "rho")]

\* spread_value and the spread Greeks: jnp.sum(leg_greeks[...] * quantities)
AggregateLegs(leg_greeks, quantities) ==
    [value |-> WeightedSum(leg_greeks, quantities, "price"),
     delta |-> WeightedSum(leg_greeks, quantities, "delta"),
     gamma |-> WeightedSum(leg_greeks, quantities, "gamma"),
     theta |-> WeightedSum(leg_greeks, quantities, "theta"),
     vega |-> WeightedSum(leg_greeks, quantities, "vega"),
     rho |-> WeightedSum(leg_greeks, quantities, "rho")]

calculate_spread_greeks(spread_data) ==
    AggregateLegs(
        _black_scholes_with_greeks(spread_data.underlying_price,
            spread_data.strikes, spread_data.expirations, spread_data.rates,
            spread_data.volatilities, spread_data.option_types),
        spread_data.quantities)

\* spread_data['quantities']: contracts long (positive) or short (negative)
SpreadQuantities == {-2, -1, 1}

\* the legs of a spread at S = 100, T = 1, r = 5%, sigma = 20%
SpreadLegs ==
    [strike : LegStrikes, option_type : OptionTypes, quantity : SpreadQuantities]

\* spread_data: one array per input, one entry per leg
SpreadData(legs) ==
    LET n == Len(legs)
    IN  [underlying_price |-> [i \in 1..n |-> 100],
         strikes |-> [i \in 1..n |-> legs[i].strike],
         expirations |-> [i \in 1..n |-> Years(1)],
         volatilities |-> [i \in 1..n |-> VolPercent(20)],
         rates |-> [i \in 1..n |-> 5],
         option_types |-> [i \in 1..n |-> legs[i].option_type],
         quantities |-> [i \in 1..n |-> legs[i].quantity]]

\* time to expiration and volatility of a contract handed to the kernel:
\* negative, zero, half the floor, and a year or 20%
KernelTimes == {Years(-1), 0, 5, Years(1)}

KernelVolatilities == {VolPercent(-20), 0, 5, VolPercent(20)}

Contracts ==
    [S : {100}, K : LegStrikes, T : KernelTimes, r : {5},
     sigma : KernelVolatilities, option_type : OptionTypes]

\* the parallel arrays of a batch of contracts
Batch(contracts) ==
    [S |-> [i \in 1..Len(contracts) |-> contracts[i].S],
     K |-> [i \in 1..Len(contracts) |-> contracts[i].K],
     T |-> [i \in 1..Len(contracts) |-> contracts[i].T],
     r |-> [i \in 1..Len(contracts) |-> contracts[i].r],
     sigma |-> [i \in 1..Len(contracts) |-> contracts[i].sigma],
     option_type |-> [i \in 1..Len(contracts) |-> contracts[i].option_type]]

\* the metrics returned for a position without legs, and on any exception
DefaultPositionMetrics ==
    PositionMetrics(0, DefaultPop, Rat(0, 1), GreekMetrics(0, 0, 0, 0, 0))

\* r = jnp.array(0.05), in percent
RiskFreeRatePercent == 5

DaysPerYear == 365

\* leg['strike'], leg['quantity'], leg['option_type'] of every leg
LegKeys == {"strike", "quantity", "option_type"}

\* the try block of calculate_position_metrics after the check for legs: a
\* missing key of the position or of a leg raises KeyError; an exception
\* inside _calculate_pop is handled there and gives its default 0.5
EvaluateLegs(position) ==
    IF {"underlying_price", "dte", "implied_volatility"} \ DOMAIN position # {}
    THEN Raised
    ELSE IF \E i \in 1..Len(position.legs) : LegKeys \ DOMAIN position.legs[i] # {}
    THEN Raised
    ELSE LET n          == Len(position.legs)
             S          == position.underlying_price
             strikes    == [i \in 1..n |-> position.legs[i].strike]
             quantities == [i \in 1..n |-> position.legs[i].quantity]
             option_types == [i \in 1..n |-> position.legs[i].option_type]
             T          == position.dte \div DaysPerYear
             r          == RiskFreeRatePercent
             sigma      == position.implied_volatility
             greeks_data ==
                _black_scholes_with_greeks([i \in 1..n |-> S], strikes,
                    [i \in 1..n |-> Years(T)], [i \in 1..n |-> r],
                    [i \in 1..n |-> VolPercent(sigma)], option_types)
             position_value == WeightedSum(greeks_data, quantities, "price")
             pop == _calculate_pop(position, Scalar(S), strikes, Scalar(T),
                                   Scalar(sigma), Scalar(r))
         IN  IF "max_loss" \notin DOMAIN position THEN Raised
             ELSE Returned(PositionMetrics(position_value, pop,
                    RatSub(RatMul(Rat(position_value, 1), pop),
                           RatMul(Rat(position.max_loss, 1),
                                  RatSub(Rat(1, 1), pop))),
                    GreekMetrics(
                        WeightedSum(greeks_data, quantities, "delta"),
                        WeightedSum(greeks_data, quantities, "gamma"),
                        WeightedSum(greeks_data, quantities, "theta"),
                        WeightedSum(greeks_data, quantities, "vega"),
                        WeightedSum(greeks_data, quantities, "rho"))))

\* except Exception: the default metrics
HandleException(body) ==
    IF body.raised THEN DefaultPositionMetrics ELSE body.value

\* the check for an empty list of legs left out: only a missing key is
\* caught, by the exception handler
CalculatePositionMetricsUnguarded(position) ==
    IF "legs" \notin DOMAIN position THEN DefaultPositionMetrics
    ELSE HandleException(EvaluateLegs(position))

\* the exception handler left out: what the try block raises reaches the
\* caller
CalculatePositionMetricsUncaught(position) ==
    IF "legs" \notin DOMAIN position THEN DefaultPositionMetrics
    ELSE IF Len(position.legs) = 0 THEN DefaultPositionMetrics
    ELSE LET body == EvaluateLegs(position)
         IN  IF body.raised THEN body ELSE body.value

calculate_position_metrics(position) ==
    IF "legs" \notin DOMAIN position THEN DefaultPositionMetrics
    ELSE IF Len(position.legs) = 0 THEN DefaultPositionMetrics
    ELSE HandleException(EvaluateLegs(position))

\* positions handed to the engine
WellFormedLegs ==
    [strike : LegStrikes, quantity : {-1, 1}, option_type : OptionTypes]

\* a leg record without its strike
MalformedLegs == [quantity : {1}, option_type : {1}]

Legs == WellFormedLegs \cup MalformedLegs

StrategyTypes == {"CREDIT_SPREAD", "DEBIT_SPREAD"}

FullPositions ==
    [legs : SeqsUpTo(Legs, MaxLegs), underlying_price : {100}, dte : {365},
     implied_volatility : {20}, strategy_type : StrategyTypes,
     max_loss : {5000}, break_even_price : {95}]

\* keys a position record may lack
OptionalKeys ==
    {"legs", "underlying_price", "strategy_type", "max_loss", "break_even_price"}

Restrict(f, D) == [k \in D |-> f[k]]

EnginePositions ==
    {Restrict(f, DOMAIN f \ drop) : f \in FullPositions, drop \in SUBSET OptionalKeys}

\* direct calls of _calculate_pop: the position's strategy fields, the
\* strikes, and S, T, sigma, r either of rank 0 (as calculate_position_metrics
\* passes them) or with one value per lane
PopPositions ==
    [strategy_type : StrategyTypes, break_even_price : {95, 105}]
        \cup [strategy_type : StrategyTypes] \cup [break_even_price : {95, 105}]

PopStrikes == {90, 100, 110}

\* the legs of the position handed to _calculate_pop: strikes is the array
\* of their strikes
PopLegs == [strike : PopStrikes, option_type : OptionTypes]

\* the position dict with its legs
WithLegs(position, legs) ==
    [k \in DOMAIN position \cup {"legs"} |->
        IF k = "legs" THEN legs ELSE position[k]]

LaneInputs == [S : {100}, T : {1, 4}, sigma : {0, 20}, r : {RiskFreeRatePercent}]

MarketArrays ==
    {[S |-> Scalar(m.S), T |-> Scalar(m.T), sigma |-> Scalar(m.sigma),
      r |-> Scalar(m.r)] : m \in LaneInputs}
    \cup
    {[S |-> Vector([i \in 1..n |-> m.S]), T |-> Vector([i \in 1..n |-> m.T]),
      sigma |-> Vector([i \in 1..n |-> m.sigma]),
      r |-> Vector([i \in 1..n |-> m.r])] : m \in LaneInputs, n \in 1..2}

(***************************************************************************)
(* JAXRealTimeAnalytics.calculate_implied_volatility                       *)
(*                                                                         *)
(* The contract is the call with S = K = 100, T = 1, r = 5%.  A volatility *)
(* is [finite, percent]: whole percent, or not finite (inf, nan).  Prices  *)
(* are in cents, vega is the raw derivative of the price in dollars by the *)
(* volatility, which is cents per percent.                                 *)
(***************************************************************************)
\* sigma_guess = jnp.array(0.3)
InitialGuess == 30

\* for _ in range(10)
NewtonIterations == 10

Finite(percent) == [finite |-> TRUE, percent |-> percent]

NonFinite == [finite |-> FALSE]

\* the kernel's price of the contract at sigma = 1%, 2%, ..., 120%
CallPriceBySigma ==
    <<488, 488, 494, 507, 528, 554, 583, 614, 647, 680,
      715, 751, 786, 823, 859, 896, 933, 970, 1008, 1045,
      1083, 1120, 1158, 1196, 1234, 1271, 1309, 1347, 1385, 1423,
      1461, 1499, 1537, 1575, 1613, 1651, 1689, 1727, 1764, 1802,
      1840, 1878, 1916, 1953, 1991, 2029, 2067, 2104, 2142, 2179,
      2217, 2254, 2292, 2329, 2366, 2404, 2441, 2478, 2515, 2552,
      2589, 2626, 2663, 2700, 2737, 2774, 2810, 2847, 2884, 2920,
      2957, 2993, 3029, 3066, 3102, 3138, 3174, 3210, 3246, 3282,
      3318, 3354, 3389, 3425, 3460, 3496, 3531, 3567, 3602, 3637,
      3672, 3707, 3742, 3777, 3811, 3846, 3881, 3915, 3950, 3984,
      4018, 4052, 4087, 4121, 4154, 4188, 4222, 4256, 4289, 4323,
      4356, 4389, 4422, 4456, 4489, 4521, 4554, 4587, 4620, 4652>>

\* greeks['vegas'][0] * 100 of the contract at sigma = 1%, 2%, ..., 120%
CallVegaBySigma ==
    <<0, 2, 10, 18, 24, 27, 30, 32, 33, 34,
      35, 36, 36, 36, 37, 37, 37, 37, 37, 38,
      38, 38, 38, 38, 38, 38, 38, 38, 38, 38,
      38, 38, 38, 38, 38, 38, 38, 38, 38, 38,
      38, 38, 38, 38, 38, 38, 38, 38, 38, 38,
      37, 37, 37, 37, 37, 37, 37, 37, 37, 37,
      37, 37, 37, 37, 37, 37, 37, 37, 37, 37,
      36, 36, 36, 36, 36, 36, 36, 36, 36, 36,
      36, 36, 36, 36, 35, 35, 35, 35, 35, 35,
      35, 35, 35, 35, 35, 35, 35, 34, 34, 34,
      34, 34, 34, 34, 34, 34, 34, 34, 34, 33,
      33, 33, 33, 33, 33, 33, 33, 33, 33, 32>>

\* the kernel at sigma: below 1% (sigma = jnp.maximum(sigma, 1e-5) included)
\* the price is S - K exp(-rT) and vega underflows to 0
PriceAndVega(percent) ==
    IF percent < 1 THEN [price |-> CallPriceBySigma[1], vega |-> 0]
    ELSE [price |-> CallPriceBySigma[percent], vega |-> CallVegaBySigma[percent]]

\* a / b to the nearest whole number, b > 0
RoundDiv(a, b) ==
    LET q == (2 * Abs(a) + b) \div (2 * b) IN IF a < 0 THEN -q ELSE q

\* bs_price - market_price
iv_objective(sigma, market_price) == PriceAndVega(sigma).price - market_price

\* greeks['vegas'][0] * 100
iv_gradient(sigma) == PriceAndVega(sigma).vega

\* sigma_guess - price_diff / vega: a division by 0 gives inf or nan, and
\* a volatility that is not finite stays so
newton_step(sigma_guess, market_price) ==
    IF ~sigma_guess.finite THEN NonFinite
    ELSE LET price_diff == iv_objective(sigma_guess.percent, market_price)
             vega == iv_gradient(sigma_guess.percent)
         IN  IF vega = 0 THEN NonFinite
             ELSE Finite(sigma_guess.percent - RoundDiv(price_diff, vega))

\* a loop that stops as soon as an update leaves the guess unchanged
LoopUntilConverged(done, sigma_guess, market_price) ==
    /\ done < NewtonIterations
    /\ newton_step(sigma_guess, market_price) # sigma_guess

\* for _ in range(10): the loop goes on whatever the guess is
LoopContinues(done, sigma_guess, market_price) == done < NewtonIterations

\* the loop: the last guess and the number of updates applied
RECURSIVE NewtonLoop(_, _, _)
NewtonLoop(done, sigma_guess, market_price) ==
    IF LoopContinues(done, sigma_guess, market_price)
    THEN NewtonLoop(done + 1, newton_step(sigma_guess, market_price), market_price)
    ELSE [sigma_guess |-> sigma_guess, updates |-> done]

\* grad inside the kernel is defined for scalar outputs only: an argument
\* of rank 1 makes the kernel raise TypeError in the first or second update
calculate_implied_volatility(market_price, S, K, T, r, option_type) ==
    IF \E a \in {market_price, S, K, T, r, option_type} : a.rank # 0
    THEN Raised
    ELSE Returned(NewtonLoop(0, Finite(InitialGuess), market_price.v[1]))

\* the volatilities a contract is priced at before its price is handed to
\* the solver: 5% to 100%
KnownVolatilities == 5..100

\* observed prices of the contract: below its lower bound, at volatilities
\* of about 7.6%, 13.4%, 20%, 30% and 45%, and the kernel's own price at
\* every known volatility
MarketPrices ==
    {300, 600, 802, 1045, 1423, 2000}
        \cup {PriceAndVega(v).price : v \in KnownVolatilities}

\* calls of calculate_implied_volatility: every argument of rank 0, every
\* argument an array of one option, or the market prices of two options
IVCalls ==
    {[market_price |-> Scalar(m), S |-> Scalar(100), K |-> Scalar(100),
      T |-> Scalar(1), r |-> Scalar(RiskFreeRatePercent),
      option_type |-> Scalar(1)] : m \in MarketPrices}
    \cup
    {[market_price |-> Vector(<<m>>), S |-> Vector(<<100>>),
      K |-> Vector(<<100>>), T |-> Vector(<<1>>),
      r |-> Vector(<<RiskFreeRatePercent>>),
      option_type |-> Vector(<<1>>)] : m \in MarketPrices}
    \cup
    {[market_price |-> Vector(<<m, 1045>>), S |-> Scalar(100),
      K |-> Scalar(100), T |-> Scalar(1), r |-> Scalar(RiskFreeRatePercent),
      option_type |-> Scalar(1)] : m \in MarketPrices}

\* the callers of monte_carlo_probability
Callers == 1..NumCallers

\* arguments of monte_carlo_probability: one lane per strike, or a rank-0
\* underlying price with one strike
EstimatorInputs ==
    {[S |-> Vector([i \in 1..Len(k) |-> 100]), K |-> Vector(k),
      T |-> Vector([i \in 1..Len(k) |-> 1]),
      sigma |-> Vector([i \in 1..Len(k) |-> v]),
      r |-> Vector([i \in 1..Len(k) |-> RiskFreeRatePercent])] :
        k \in {<<90>>, <<110>>, <<90, 110>>}, v \in {0, 20}}
    \cup {[S |-> Scalar(100), K |-> Vector(<<90>>), T |-> Scalar(1),
           sigma |-> Scalar(20), r |-> Scalar(RiskFreeRatePercent)]}

(***************************************************************************)
(* AccountRiskMonitor.approve_trade                                        *)
(*                                                                         *)
(* An opportunity is a dict; its max_risk is a number or a text.           *)
(***************************************************************************)
\* the default of risk_parameters.get('max_risk_per_trade', 30)
DefaultMaxRiskPerTrade == 30

\* len(current_positions) < max_positions
_check_position_limits(risk_parameters, current_positions) ==
    Len(current_positions) < MaxOpenPositions(risk_parameters)

\* trade_risk <= max_risk_per_trade; comparing a text with a number raises
\* TypeError
_check_risk_limits(risk_parameters, opportunity) ==
    LET trade_risk == IF "max_risk" \in DOMAIN opportunity
                      THEN opportunity.max_risk ELSE [number |-> 0]
        limit == IF "max_risk_per_trade" \in DOMAIN risk_parameters
                 THEN risk_parameters.max_risk_per_trade
                 ELSE DefaultMaxRiskPerTrade
    IN  IF "number" \notin DOMAIN trade_risk THEN Raised
        ELSE Returned(trade_risk.number <= limit)

\* the data sources of the model that start with 'mock'
MockSources == {"mock", "mock_data"}

\* opportunity.get('data_source', '').startswith('mock')
IsMockData(opportunity) ==
    /\ "data_source" \in DOMAIN opportunity
    /\ opportunity.data_source \in MockSources

\* _check_daily_limits()
_check_daily_limits == TRUE

\* the try block of approve_trade: the log line of a mock approval reads
\* opportunity['symbol'], a KeyError when the key is missing
ApprovalBody(risk_parameters, opportunity, current_positions) ==
    IF IsMockData(opportunity)
    THEN IF "symbol" \in DOMAIN opportunity THEN Returned(TRUE) ELSE Raised
    ELSE IF ~_check_position_limits(risk_parameters, current_positions)
    THEN Returned(FALSE)
    ELSE LET within == _check_risk_limits(risk_parameters, opportunity)
         IN  IF within.raised THEN Raised
             ELSE IF ~within.value THEN Returned(FALSE)
             ELSE IF ~_check_daily_limits THEN Returned(FALSE)
             ELSE Returned(TRUE)

\* except Exception: return False
approve_trade(risk_parameters, opportunity, current_positions) ==
    LET body == ApprovalBody(risk_parameters, opportunity, current_positions)
    IN  IF body.raised THEN FALSE ELSE body.value

\* opportunities: from a mock or a live source or with none named, with and
\* without a symbol, with a max_risk around the limits, missing, or a text
FullOpportunities ==
    [data_source : MockSources \cup {"tastytrade"}, symbol : {"SPY"},
     max_risk : {[number |-> n] : n \in {30, 31, 100, 101}}
                    \cup {[text |-> "high"]}]

Opportunities ==
    {Restrict(o, DOMAIN o \ drop) :
        o \in FullOpportunities,
        drop \in SUBSET {"data_source", "symbol", "max_risk"}}

\* risk_parameters with and without either limit
ApprovalParameters ==
    {Restrict(rp, DOMAIN rp \ drop) :
        rp \in [max_open_positions : {0, 2}, max_risk_per_trade : {100}],
        drop \in SUBSET {"max_open_positions", "max_risk_per_trade"}}

\* current_positions, by the number of its entries
OpenPositions(n) == [i \in 1..n |-> [position_id |-> i]]

(***************************************************************************)
(* AccountRiskMonitor._calculate_portfolio_metrics                         *)
(*                                                                         *)
(* open_positions is the list of the values of the dict.  Money is in      *)
(* dollars, a fraction is an exact quotient.  account_data is an           *)
(* AccountData object or a dict.                                           *)
(***************************************************************************)
\* d.get(key, default)
GetOr(d, key, default) == IF key \in DOMAIN d THEN d[key] ELSE default

\* sum(pos.get('current_value', 0) for pos in open_positions.values())
RECURSIVE SumCurrentValue(_)
SumCurrentValue(open_positions) ==
    IF Len(open_positions) = 0 THEN 0
    ELSE GetOr(Head(open_positions), "current_value", 0)
            + SumCurrentValue(Tail(open_positions))

\* position.get('sector', 'unknown')
SectorOf(position) == GetOr(position, "sector", "unknown")

\* value/total_value if total_value > 0 else 0
Share(value, total_value) ==
    IF total_value > 0 THEN Rat(value, total_value) ELSE Rat(0, 1)

_calculate_sector_concentration(open_positions) ==
    LET total_value == SumCurrentValue(open_positions)
        sectors == {SectorOf(open_positions[i]) : i \in DOMAIN open_positions}
        sector_values ==
            [sector \in sectors |->
                SumCurrentValue(SelectSeq(open_positions,
                                    LAMBDA pos : SectorOf(pos) = sector))]
    IN  [sector \in sectors |-> Share(sector_values[sector], total_value)]

\* the mix with each strategy counted once however many positions have it
StrategiesPresent(open_positions) ==
    [strategy \in {StrategyOf(open_positions[i]) : i \in DOMAIN open_positions}
        |-> 1]

_calculate_strategy_mix(open_positions) ==
    [strategy \in {StrategyOf(open_positions[i]) : i \in DOMAIN open_positions}
        |-> Cardinality({i \in DOMAIN open_positions :
                            StrategyOf(open_positions[i]) = strategy})]

\* sum(pos.get(greek, 0) for pos in open_positions.values())
RECURSIVE SumGreek(_, _)
SumGreek(open_positions, greek) ==
    IF Len(open_positions) = 0 THEN 0
    ELSE GetOr(Head(open_positions), greek, 0)
            + SumGreek(Tail(open_positions), greek)

_calculate_portfolio_greeks(open_positions) ==
    [delta |-> SumGreek(open_positions, "delta"),
     gamma |-> SumGreek(open_positions, "gamma"),
     theta |-> SumGreek(open_positions, "theta"),
     vega |-> SumGreek(open_positions, "vega")]

\* return 0.05, in percent
_calculate_max_drawdown == 5

\* margin_used / total_value if total_value > 0 else 0
MarginUsage(margin_used, total_value) ==
    IF total_value > 0 THEN Rat(margin_used, total_value) ELSE Rat(0, 1)

\* the metrics of the portfolio; the risk score of these metrics is
\* _calculate_risk_score, above.  An AccountData object has the three
\* attributes, a dict is read with defaults of 0.
_calculate_portfolio_metrics(account_data, open_positions) ==
    LET fields == account_data.fields
        is_object == account_data.type = "AccountData"
        total_value == IF is_object THEN fields.total_value
                       ELSE GetOr(fields, "total_value", 0)
        buying_power == IF is_object THEN fields.buying_power
                        ELSE GetOr(fields, "buying_power", 0)
        margin_used == IF is_object THEN fields.margin_used
                       ELSE GetOr(fields, "margin_used", 0)
    IN  [total_value |-> total_value,
         buying_power |-> buying_power,
         margin_usage |-> MarginUsage(margin_used, total_value),
         max_drawdown |-> _calculate_max_drawdown,
         portfolio_greeks |-> _calculate_portfolio_greeks(open_positions),
         sector_concentration |-> _calculate_sector_concentration(open_positions),
         strategy_mix |-> _calculate_strategy_mix(open_positions)]

\* the accounts: funded, empty, in deficit; as an object, as a dict, and as
\* a dict with keys missing
FullAccounts ==
    [total_value : {-100, 0, 1000}, buying_power : {500}, margin_used : {250}]

AccountDatas ==
    {[type |-> "AccountData", fields |-> f] : f \in FullAccounts}
        \cup {[type |-> "dict", fields |-> Restrict(f, DOMAIN f \ drop)] :
                    f \in FullAccounts,
                    drop \in {{}, {"total_value"}, {"margin_used", "buying_power"}}}

\* the positions held: long or short of value, in a sector and of a
\* strategy or with either key or the value missing
FullHeldPositions ==
    [current_value : {-50, 100}, sector : {"technology", "etf"},
     strategy_type : {"credit_spread"}, delta : {10}]

HeldPositions ==
    {Restrict(f, DOMAIN f \ drop) :
        f \in FullHeldPositions,
        drop \in SUBSET {"current_value", "sector", "strategy_type"}}

(***************************************************************************)
(* ActiveTradeManager.manage_all_positions (trade_manager.py)              *)
(*                                                                         *)
(* Times are in minutes, profit, loss and volatilities whole numbers       *)
(* (volatilities in percent).  A positions map is the sequence of its      *)
(* values in the order of the map; the key of a position is its index.     *)
(* The advisor is the external decision service: `decisions` holds, for    *)
(* each position, the decision it gives when it is asked about it.  An     *)
(* outcome carries the positions the advisor was asked about.              *)
(***************************************************************************)
ManagementAction(position_id, action_type, parameters, confidence, rationale) ==
    [position_id |-> position_id, action_type |-> action_type,
     parameters |-> parameters, confidence |-> confidence,
     rationale |-> rationale]

\* management_rules['emergency_close_threshold'], in percent
EmergencyCloseThreshold == -80

\* management_rules['volatility_alert_threshold'], in percent
VolatilityAlertThreshold == 30

\* timedelta(hours=1)
OneHour == 60

\* getattr(position, name, default)
AttrOf(position, name, default) ==
    IF name \in DOMAIN position THEN position[name] ELSE default

\* a / b <= limit percent, b not zero
RatioAtMostPercent(a, b, limit) ==
    IF b > 0 THEN a * 100 <= limit * b ELSE a * 100 >= limit * b

\* abs((current_iv - entry_iv) / entry_iv) > threshold, entry_iv not zero
IvChangeAbove(position, threshold) ==
    LET current_iv == AttrOf(position, "current_iv", 30)
        entry_iv   == AttrOf(position, "entry_iv", 30)
    IN  Abs(current_iv - entry_iv) * 100 > threshold * Abs(entry_iv)

\* the action of the first emergency condition that holds, or None; a zero
\* max_loss or entry_iv raises ZeroDivisionError
_check_emergency_conditions(position, position_id) ==
    IF AttrOf(position, "max_loss", 1) = 0 THEN Raised
    ELSE IF RatioAtMostPercent(AttrOf(position, "current_pnl", 0),
                               AttrOf(position, "max_loss", 1),
                               EmergencyCloseThreshold)
    THEN Returned(ManagementAction(position_id, "CLOSE",
            [reason |-> "approaching_max_loss"], 95,
            PercentMessage("Emergency close: approaching maximum loss",
                [num |-> AttrOf(position, "current_pnl", 0)
                            * (IF AttrOf(position, "max_loss", 1) < 0 THEN -1 ELSE 1),
                 den |-> Abs(AttrOf(position, "max_loss", 1))])))
    ELSE IF AttrOf(position, "entry_iv", 30) = 0 THEN Raised
    ELSE IF IvChangeAbove(position, VolatilityAlertThreshold)
    THEN Returned(ManagementAction(position_id, "CLOSE",
            [reason |-> "extreme_volatility_change"], 85,
            [text |-> "Emergency close: extreme IV change"]))
    ELSE Returned(NoAssessment)

\* _create_management_action(decision, position, metrics)
_create_management_action(decision, position_id) ==
    ManagementAction(position_id, decision.action_type, decision.parameters,
                     decision.confidence, decision.rationale)

\* entry_time parses and lies less than an hour before now
SkippedAsNew(pos, now) ==
    /\ "entry_time" \in DOMAIN pos
    /\ "minute" \in DOMAIN pos.entry_time
    /\ now - pos.entry_time.minute < OneHour

\* the loop over positions.items() from position i on; an exception leaves
\* the loop and the call
RECURSIVE ManageFrom(_, _, _, _, _, _)
ManageFrom(positions, decisions, now, i, actions, consulted) ==
    IF i > Len(positions)
    THEN [raised |-> FALSE, value |-> actions, consulted |-> consulted]
    ELSE IF SkippedAsNew(positions[i], now)
    THEN ManageFrom(positions, decisions, now, i + 1, actions, consulted)
    ELSE LET emergency_action == _check_emergency_conditions(positions[i], i)
         IN  IF emergency_action.raised
             THEN [raised |-> TRUE, consulted |-> consulted]
             ELSE IF emergency_action.value # NoAssessment
             THEN ManageFrom(positions, decisions, now, i + 1,
                             Append(actions, emergency_action.value), consulted)
             ELSE ManageFrom(positions, decisions, now, i + 1,
                    Append(actions,
                           _create_management_action(decisions[i], i)),
                    Append(consulted, i))

manage_all_positions(positions, decisions, now) ==
    ManageFrom(positions, decisions, now, 1, <<>>, <<>>)

\* the call is made at this minute
CallMinute == 600

\* pos.get('entry_time'): missing, not a date, or the minute of entry
EntryTimes ==
    {[text |-> "not a date"]}
        \cup {[minute |-> CallMinute - age] : age \in {0, 59, 60, 300}}

\* profit and loss, and volatility, of a position: in good order, at and
\* around the loss limit, with max_loss missing or zero, with the
\* volatility up by 30% and by a third, with a zero entry volatility
PositionStanding ==
    {[current_pnl |-> 10, max_loss |-> 100],
     [current_pnl |-> -79, max_loss |-> 100],
     [current_pnl |-> -80, max_loss |-> 100],
     [current_pnl |-> -90, max_loss |-> 100],
     [current_pnl |-> -90],
     [current_pnl |-> 10, max_loss |-> 0],
     [current_pnl |-> 10, max_loss |-> 100, current_iv |-> 39, entry_iv |-> 30],
     [current_pnl |-> 10, max_loss |-> 100, current_iv |-> 40, entry_iv |-> 30],
     [current_pnl |-> 10, max_loss |-> 100, current_iv |-> 30, entry_iv |-> 0]}

\* positions without an entry time, and dated ones in good order, beyond
\* the loss limit and with a zero max_loss
ManagedPositions ==
    PositionStanding
        \cup {[k \in DOMAIN p \cup {"entry_time"} |->
                    IF k = "entry_time" THEN e ELSE p[k]] :
                p \in {q \in PositionStanding :
                            /\ DOMAIN q = {"current_pnl", "max_loss"}
                            /\ q.current_pnl \in {10, -90}},
                e \in EntryTimes}

\* what the advisor answers
ManagementDecisions ==
    {[action_type |-> "HOLD", confidence |-> 50,
      rationale |-> "Test rationale", parameters |-> <<>>],
     [action_type |-> "CLOSE", confidence |-> 90,
      rationale |-> "Profit target hit", parameters |-> <<>>]}

(***************************************************************************)
(* Properties of assess_portfolio_risk                                     *)
(***************************************************************************)
Assessed == pc = "returned" /\ op = "assess_portfolio_risk"

\* the indices of the entries the loop does not skip
CountedPositions(positions) ==
    {i \in 1..Len(positions) :
        positions[i] \notin {FalsyPosition, MalformedPosition}}

RECURSIVE SumValues(_, _)
SumValues(positions, I) ==
    IF I = {} THEN 0
    ELSE LET i == CHOOSE i \in I : TRUE
         IN  PositionValue(positions[i]) + SumValues(positions, I \ {i})

\* total invested value, and the part of it held in strategy s
TotalInvested(positions) == SumValues(positions, CountedPositions(positions))

StrategyValue(positions, s) ==
    SumValues(positions,
        {i \in CountedPositions(positions) : StrategyOf(positions[i]) = s})

StrategiesHeld(positions) ==
    {StrategyOf(positions[i]) : i \in CountedPositions(positions)}

\* min(10, largest share in percent / 10) >= k, for a total that is not 0:
\* some strategy's value / total, in percent, is at least 10 * k
ShareLevelAtLeast(positions, k) ==
    LET total == TotalInvested(positions) IN
    /\ k <= MaxScore
    /\ \E s \in StrategiesHeld(positions) :
          IF total > 0
          THEN StrategyValue(positions, s) * 100 >= 10 * k * total
          ELSE StrategyValue(positions, s) * 100 <= 10 * k * total

\* the same with the code's convention: every share is 0 when the total
\* invested value is not positive
CodeShareLevelAtLeast(positions, k) ==
    IF TotalInvested(positions) > 0 THEN ShareLevelAtLeast(positions, k)
    ELSE k <= 0

InBucket(positions, atLeast(_, _)) ==
    IF atLeast(positions, CriticalScore)
    THEN result.alert_level = 8 /\ result.message = "Critical concentration risk"
    ELSE IF atLeast(positions, HighScore)
    THEN result.alert_level = 5 /\ result.message = "High concentration risk"
    ELSE IF atLeast(positions, ModerateScore)
    THEN result.alert_level = 3 /\ result.message = "Moderate concentration risk"
    ELSE /\ result.alert_level = 0
         /\ result.message = "Low risk portfolio"
         /\ result.concerns = <<>>

\* the market condition of the call is classified bullish: trend bullish
\* and volatility index below 25
ClassifiedBullish(market_data) ==
    /\ "market_trend" \in DOMAIN market_data
    /\ market_data.market_trend = "bullish"
    /\ IF "vix" \in DOMAIN market_data THEN market_data.vix < 250 ELSE TRUE

\* C7: with zero positions and a classified market condition the result is
\* alert level 1 with at least one recommendation when the condition is
\* bullish, and alert level 0 with no concerns and no recommendations when
\* it is bearish or neutral.
C7_EmptyPortfolio ==
    (Assessed /\ Len(args.positions) = 0
        /\ args.market_data # FailedMarketConditions)
    => IF ClassifiedBullish(args.market_data)
       THEN result.alert_level = 1 /\ Len(result.recommendations) >= 1
       ELSE /\ result.alert_level = 0
            /\ result.concerns = <<>>
            /\ result.recommendations = <<>>

C7_Witness ==
    /\ Assessed
    /\ Len(args.positions) = 0
    /\ args.market_data = [vix |-> 249, market_trend |-> "bullish"]
    /\ result.alert_level = 1

\* C8: for a non-empty portfolio whose total invested value is not zero the
\* assessment is the one of the bucket of min(10, largest strategy share of
\* the total in percent / 10): >= 8 critical, >= 5 high, >= 3 moderate,
\* otherwise low risk with no concerns.
C8_ConcentrationBuckets ==
    (Assessed /\ Len(args.positions) > 0 /\ TotalInvested(args.positions) # 0)
    => InBucket(args.positions, ShareLevelAtLeast)

\* C8 restricted to what the code computes: shares count as 0 when the
\* total invested value is not positive
C8_CodeBuckets ==
    (Assessed /\ Len(args.positions) > 0)
    => InBucket(args.positions, CodeShareLevelAtLeast)

\* every entry is a record carrying the strategy tag s
AllTagged(positions, s) ==
    \A i \in 1..Len(positions) :
        /\ positions[i] \in PositionRecords
        /\ "strategy_type" \in DOMAIN positions[i]
        /\ positions[i].strategy_type = s

\* C9: a non-empty portfolio whose positions all carry the same strategy
\* tag gets alert level >= 8 and a concern naming the strategy and 100.0%.
C9_SingleStrategy ==
    \A s \in StrategyTags :
        (Assessed /\ Len(args.positions) > 0 /\ AllTagged(args.positions, s))
        => /\ result.alert_level >= 8
           /\ \E i \in 1..Len(result.concerns) :
                 /\ result.concerns[i].strategy = s
                 /\ result.concerns[i].percent_tenths = 1000

\* C9 for portfolios with a positive total invested value
C9_SingleStrategyPositive ==
    \A s \in StrategyTags :
        (Assessed /\ Len(args.positions) > 0 /\ AllTagged(args.positions, s)
            /\ TotalInvested(args.positions) > 0)
        => /\ result.alert_level >= 8
           /\ \E i \in 1..Len(result.concerns) :
                 /\ result.concerns[i].strategy = s
                 /\ result.concerns[i].percent_tenths = 1000

(***************************************************************************)
(* Properties of _combine_risk_assessments                                 *)
(***************************************************************************)
Combined == pc = "returned" /\ op = "_combine_risk_assessments"

CombinedAssessment == Combined /\ result.raised = "no"

AlertMessages(automated_alerts) ==
    {automated_alerts[i].message : i \in 1..Len(automated_alerts)}

AlertActions(automated_alerts) ==
    UNION {SeqToSet(automated_alerts[i].actions) : i \in 1..Len(automated_alerts)}

\* the severities of the alerts on the alert scale (RiskLevel values)
AlertSeverities(automated_alerts) ==
    {RiskLevelValue[automated_alerts[i].level] : i \in 1..Len(automated_alerts)}

SetMax(S) == CHOOSE m \in S : \A x \in S : x <= m

\* C3: every assessment the engine returns, from assess_portfolio_risk or
\* from the combiner, has an alert level in 0..10.
C3_AlertLevelRange ==
    (Assessed \/ CombinedAssessment) => result.alert_level \in 0..10

C5_UnionWithoutDuplicates ==
    CombinedAssessment
    => /\ SeqToSet(result.concerns) =
             SeqToSet(args.deepseek_assessment.concerns)
                \cup AlertMessages(args.automated_alerts)
       /\ SeqToSet(result.recommendations) =
             SeqToSet(args.deepseek_assessment.recommendations)
                \cup AlertActions(args.automated_alerts)
       /\ NoDuplicates(result.concerns)
       /\ NoDuplicates(result.recommendations)
       /\ result.deepseek_assessment = args.deepseek_assessment

\* both sources name the same concern and the same action
C5_Witness ==
    /\ CombinedAssessment
    /\ Len(args.automated_alerts) = 2
    /\ args.deepseek_assessment.concerns = <<"API connectivity issue">>
    /\ args.automated_alerts[1].message = "API connectivity issue"
    /\ args.automated_alerts[2].message = "High margin usage: 60.0%"
    /\ args.deepseek_assessment.recommendations = <<"Close positions">>
    /\ args.automated_alerts[1].actions = <<"Hedge delta", "Close positions">>
    /\ Len(result.concerns) = 2
    /\ Len(result.recommendations) = 2

\* C6: without a qualitative assessment the combiner still returns an
\* assessment, built from the automated alerts alone.
C6_QualitativeUnavailable ==
    (Combined /\ args.deepseek_assessment = NoAssessment)
    => /\ result.raised = "no"
       /\ SeqToSet(result.concerns) = AlertMessages(args.automated_alerts)
       /\ SeqToSet(result.recommendations) = AlertActions(args.automated_alerts)

(***************************************************************************)
(* Properties of _calculate_risk_score                                     *)
(***************************************************************************)
Scored == pc = "returned" /\ op = "_calculate_risk_score"

\* C2: the composite risk score lies in [0,1] whatever the Greeks, the
\* sector-concentration map, the margin usage and the position count are.
C2_RiskScoreRange ==
    Scored => 0 <= result.num /\ result.num <= result.den

\* C2 for inputs whose sector concentrations and margin usage are not
\* negative
C2_RiskScoreRangeNonNegative ==
    (Scored /\ args.margin_usage >= 0
        /\ \A k \in DOMAIN args.sector_conc : args.sector_conc[k] >= 0)
    => 0 <= result.num /\ result.num <= result.den

\* the ratios of a call, each with the threshold it is divided by and
\* whether that threshold is defined
ScoreRatios(a) ==
    LET sectors == {a.sector_conc[k] : k \in DOMAIN a.sector_conc}
        delta == IF "delta" \in DOMAIN a.greeks THEN a.greeks.delta ELSE 0
        gamma == IF "gamma" \in DOMAIN a.greeks THEN a.greeks.gamma ELSE 0
        vega  == IF "vega" \in DOMAIN a.greeks THEN a.greeks.vega ELSE 0
        limit_defined == "max_open_positions" \in DOMAIN a.risk_parameters
    IN  <<[x |-> Abs(delta), threshold |-> a.thresholds.portfolio_delta,
           defined |-> TRUE],
          [x |-> Abs(gamma), threshold |-> a.thresholds.portfolio_gamma,
           defined |-> TRUE],
          [x |-> Abs(vega), threshold |-> a.thresholds.portfolio_vega,
           defined |-> TRUE],
          [x |-> IF sectors = {} THEN 0 ELSE SetMax(sectors),
           threshold |-> a.thresholds.sector_concentration, defined |-> TRUE],
          [x |-> a.margin_usage, threshold |-> a.thresholds.margin_usage,
           defined |-> TRUE],
          [x |-> a.position_count,
           threshold |-> IF limit_defined
                         THEN a.risk_parameters.max_open_positions ELSE 0,
           defined |-> limit_defined]>>

\* the sum of the ratios of the indices I, each capped at 1
RECURSIVE SumCapped(_, _)
SumCapped(ratios, I) ==
    IF I = {} THEN Rat(0, 1)
    ELSE LET i == CHOOSE i \in I : TRUE
         IN  RatAdd(IF ratios[i].x >= ratios[i].threshold THEN Rat(1, 1)
                    ELSE Rat(ratios[i].x, ratios[i].threshold),
                    SumCapped(ratios, I \ {i}))

\* the score is the mean of the ratios of the indices I, 0 when I is empty
IsMeanOf(score, ratios, I) ==
    IF I = {} THEN score.num = 0
    ELSE LET total == SumCapped(ratios, I)
         IN  score.num * total.den * Cardinality(I) = total.num * score.den

\* C17: the score is the mean of the ratios whose threshold is defined and
\* not zero, each capped at 1, and 0 when there is no such ratio.
C17_MeanOfApplicable ==
    Scored
    => LET ratios == ScoreRatios(args)
       IN  IsMeanOf(result, ratios,
                {i \in 1..Len(ratios) :
                    ratios[i].defined /\ ratios[i].threshold > 0})

\* C17 with what the code does for an undefined limit of open positions: it
\* counts as 5 and its ratio stays in the mean
C17_MeanWithDefaultLimit ==
    Scored
    => LET given == ScoreRatios(args)
           ratios == [i \in 1..Len(given) |->
                        IF given[i].defined THEN given[i]
                        ELSE [given[i] EXCEPT !.threshold = 5]]
       IN  IsMeanOf(result, ratios,
                {i \in 1..Len(ratios) : ratios[i].threshold > 0})

(***************************************************************************)
(* Properties of approve_trade                                             *)
(***************************************************************************)
Approved == pc = "returned" /\ op = "approve_trade"

\* the opportunity's data source is mock data
FromMockData(o) ==
    "data_source" \in DOMAIN o /\ o.data_source \in {"mock", "mock_data"}

\* the number of current positions is at or above max_open_positions
AtPositionLimit(a) ==
    /\ "max_open_positions" \in DOMAIN a.risk_parameters
    /\ Len(a.current_positions) >= a.risk_parameters.max_open_positions

\* the trade's max risk is above max_risk_per_trade
AboveRiskLimit(a) ==
    /\ "max_risk_per_trade" \in DOMAIN a.risk_parameters
    /\ "max_risk" \in DOMAIN a.opportunity
    /\ "number" \in DOMAIN a.opportunity.max_risk
    /\ a.opportunity.max_risk.number > a.risk_parameters.max_risk_per_trade

\* an opportunity that is not mock data is denied at the position limit and
\* above the risk limit, and the call answers yes or no
DeniedAtLimits ==
    /\ result \in BOOLEAN
    /\ (~FromMockData(args.opportunity)
            /\ (AtPositionLimit(args) \/ AboveRiskLimit(args)))
       => result = FALSE

\* C25: approve_trade approves every opportunity from mock data whatever
\* the limits; any other opportunity is denied when the number of current
\* positions is at or above max_open_positions or its max risk is above
\* max_risk_per_trade; an internal error gives a denial, not an exception.
C25_MockApprovedLimitsDeny ==
    Approved
    => /\ FromMockData(args.opportunity) => result = TRUE
       /\ DeniedAtLimits

\* C25 with the mock opportunities that name their symbol
C25_MockWithSymbolApproved ==
    Approved
    => /\ (FromMockData(args.opportunity) /\ "symbol" \in DOMAIN args.opportunity)
            => result = TRUE
       /\ DeniedAtLimits

(***************************************************************************)
(* Properties of manage_all_positions                                      *)
(***************************************************************************)
Managed == pc = "returned" /\ op = "manage_all_positions"

\* the position was entered less than an hour before the call
TooNew(pos, now) ==
    /\ "entry_time" \in DOMAIN pos
    /\ "minute" \in DOMAIN pos.entry_time
    /\ pos.entry_time.minute > now - 60

\* the positions of the call that are not too new
NotTooNew(a) == {i \in 1..Len(a.positions) : ~TooNew(a.positions[i], a.now)}

\* current_pnl / max_loss is defined and at or below -0.8
AtLossLimit(pos) ==
    /\ {"current_pnl", "max_loss"} \subseteq DOMAIN pos
    /\ \/ pos.max_loss > 0 /\ 10 * pos.current_pnl <= -8 * pos.max_loss
       \/ pos.max_loss < 0 /\ 10 * pos.current_pnl >= -8 * pos.max_loss

\* no emergency condition holds for the position: the loss ratio is above
\* -0.8 and the volatility has moved by no more than 30%
NoEmergency(pos) ==
    /\ {"current_pnl", "max_loss"} \subseteq DOMAIN pos
    /\ pos.max_loss > 0
    /\ 10 * pos.current_pnl > -8 * pos.max_loss
    /\ \/ "entry_iv" \notin DOMAIN pos
       \/ /\ pos.entry_iv > 0
          /\ 10 * Abs(pos.current_iv - pos.entry_iv) <= 3 * pos.entry_iv

\* the actions of a returned call for position i
ActionsFor(actions, i) == {k \in 1..Len(actions) : actions[k].position_id = i}

\* the call returned a list with one action for every position that is not
\* too new and none for the others, the advisor's for a position without an
\* emergency
OneActionEach ==
    /\ ~result.raised
    /\ Len(args.positions) = 0 => result.value = <<>>
    /\ Len(result.value) = Cardinality(NotTooNew(args))
    /\ \A i \in 1..Len(args.positions) :
          Cardinality(ActionsFor(result.value, i)) =
                (IF i \in NotTooNew(args) THEN 1 ELSE 0)
    /\ \A i \in NotTooNew(args) :
          NoEmergency(args.positions[i])
          => \A k \in ActionsFor(result.value, i) :
                /\ result.value[k].action_type = args.decisions[i].action_type
                /\ result.value[k].confidence = args.decisions[i].confidence

\* C23: manage_all_positions returns an empty list for an empty map, no
\* action for a position entered less than an hour before the call and
\* exactly one action for every other position; the action of a managed
\* position without an emergency carries the advisor's action type and
\* confidence.
C23_OneActionPerManagedPosition == Managed => OneActionEach

\* C23 for the calls in which no division by zero occurs
C23_OneActionUnlessRaised ==
    (Managed /\ ~result.raised) => OneActionEach

\* position i has a CLOSE action for approaching maximum loss
ClosedAtLossLimit(i) ==
    /\ ~result.raised
    /\ \E k \in ActionsFor(result.value, i) :
          /\ result.value[k].action_type = "CLOSE"
          /\ result.value[k].rationale.text
                = "Emergency close: approaching maximum loss"

\* the advisor was asked about position i
Consulted(i) == \E k \in 1..Len(result.consulted) : result.consulted[k] = i

\* C24: a managed position whose current_pnl / max_loss is at or below -0.8
\* gets a CLOSE action whose rationale mentions the approaching maximum
\* loss, and the advisor is not asked about it.
C24_EmergencyClosePreempts ==
    Managed
    => \A i \in NotTooNew(args) :
          AtLossLimit(args.positions[i])
          => ClosedAtLossLimit(i) /\ ~Consulted(i)

\* C24 for the calls in which no division by zero occurs; the advisor is
\* not asked in any call
C24_PreemptsUnlessRaised ==
    Managed
    => \A i \in NotTooNew(args) :
          AtLossLimit(args.positions[i])
          => /\ ~Consulted(i)
             /\ ~result.raised => ClosedAtLossLimit(i)

(***************************************************************************)
(* Properties of _black_scholes_with_greeks                                *)
(***************************************************************************)
Priced == pc = "returned" /\ op = "_black_scholes_with_greeks"

\* contract i of a batch, priced in a call of its own
PricedAlone(a, i) ==
    _black_scholes_with_greeks(<<a.S[i]>>, <<a.K[i]>>, <<a.T[i]>>, <<a.r[i]>>,
                               <<a.sigma[i]>>, <<a.option_type[i]>>)[1]

\* C21: the batch call gives, for each contract, the price and Greeks that
\* a call on that contract alone gives, whatever the other contracts of the
\* batch are and wherever the contract stands in it.
C21_BatchIsLaneWise ==
    Priced
    => /\ Len(result) = Len(args.K)
       /\ \A i \in 1..Len(result) : result[i] = PricedAlone(args, i)

\* a batch of two different contracts, both with price and Greeks
C21_Witness ==
    /\ Priced
    /\ Len(result) = 2
    /\ args.sigma[1] # args.sigma[2]
    /\ args.T[1] # args.T[2]
    /\ result[1] # result[2]
    /\ result[2] = PricedAlone(args, 2)

\* contract i of a batch with the inputs below the floor set to the floor
AtFloor(a, i) ==
    _black_scholes_with_greeks(<<a.S[i]>>, <<a.K[i]>>,
        <<IF a.T[i] < Epsilon THEN Epsilon ELSE a.T[i]>>, <<a.r[i]>>,
        <<IF a.sigma[i] < Epsilon THEN Epsilon ELSE a.sigma[i]>>,
        <<a.option_type[i]>>)[1]

\* the figures are numbers
HasFigures(f) == DOMAIN KernelFigures(0, 0, 0, 0, 0, 0) \subseteq DOMAIN f

\* C22: a contract whose T or sigma is below 1e-5, zero and negative
\* included, gets the price and the five Greeks of the same contract with
\* that input at exactly 1e-5; it gets figures, not an error, and the
\* divisor sigma * sqrt(T) of the formulas is not zero.
C22_ClampedToFloor ==
    Priced
    => \A i \in 1..Len(result) :
          (args.T[i] < Epsilon \/ args.sigma[i] < Epsilon)
          => /\ result[i] = AtFloor(args, i)
             /\ HasFigures(result[i])
             /\ Clip(args.T[i]) > 0 /\ Clip(args.sigma[i]) > 0

\* a put expiring now at zero volatility has been priced: it is worth its
\* ten dollars of intrinsic value
C22_Witness ==
    /\ Priced
    /\ Len(result) = 1
    /\ args.T[1] = 0
    /\ args.sigma[1] = 0
    /\ args.K[1] = 110
    /\ args.option_type[1] = -1
    /\ result[1].price = 1000

\* two contracts of a batch that share S, K, T, r and sigma, the first a
\* call and the second a put
CallAndPut(a, i, j) ==
    /\ a.S[i] = a.S[j] /\ a.K[i] = a.K[j] /\ a.T[i] = a.T[j]
    /\ a.r[i] = a.r[j] /\ a.sigma[i] = a.sigma[j]
    /\ a.option_type[i] = 1 /\ a.option_type[j] = -1

\* K * exp(-r * t) at r = 5%, in millionths of a dollar
DiscountedStrike(K_val, t) ==
    IF t = Years(-1) THEN (IF K_val = 90 THEN 94614399 ELSE 115639821)
    ELSE IF t = 0 THEN K_val * 1000000
    ELSE IF t = 5 THEN (IF K_val = 90 THEN 89999978 ELSE 109999973)
    ELSE IF t = Epsilon THEN (IF K_val = 90 THEN 89999955 ELSE 109999945)
    ELSE IF K_val = 90 THEN 85610648 ELSE 104635237

\* call price - put price - (S - K discounted over t), in millionths
ParityGap(a, i, j, t) ==
    (result[i].price_micros - result[j].price_micros)
        - (a.S[i] * 1000000 - DiscountedStrike(a.K[i], t))

\* no more than 1e-4 either way
WithinParityTolerance(gap) == -100 <= gap /\ gap <= 100

\* C26: the call price minus the put price of the same (S, K, T, r, sigma)
\* is S minus K discounted at r over T, within 1e-4.
C26_PutCallParity ==
    Priced
    => \A i, j \in 1..Len(result) :
          CallAndPut(args, i, j)
          => WithinParityTolerance(ParityGap(args, i, j, args.T[i]))

\* C26 with K discounted over the time the kernel prices with, T raised to
\* the floor of 1e-5: the call price minus the put price is S minus K
\* discounted at r over max(T, 1e-5), within 1e-4.
C26_ParityOverClampedTime ==
    Priced
    => \A i, j \in 1..Len(result) :
          CallAndPut(args, i, j)
          => WithinParityTolerance(ParityGap(args, i, j, Clip(args.T[i])))

\* a call and a put at the strike of 110 with a year to run at 20% have
\* been priced together, and so have a call and a put that expired a year
\* ago
C26_Witness ==
    /\ Priced
    /\ Len(result) = 2
    /\ CallAndPut(args, 1, 2)
    /\ args.K[1] = 110
    /\ args.T[1] = Years(1) /\ args.sigma[1] = VolPercent(20)
    /\ result[1].price_micros = 6040088
    /\ result[2].price_micros = 10675325

C26_WitnessExpired ==
    /\ Priced
    /\ Len(result) = 2
    /\ CallAndPut(args, 1, 2)
    /\ args.T[1] = Years(-1)
    /\ result[1].price_micros - result[2].price_micros = 10000045

(***************************************************************************)
(* Properties of calculate_spread_greeks                                   *)
(***************************************************************************)
SpreadReturned == pc = "returned" /\ op = "calculate_spread_greeks"

\* the sum, over the legs I of a spread, of the leg's own figure times its
\* signed quantity
RECURSIVE SpreadSum(_, _, _)
SpreadSum(spread_data, I, field) ==
    IF I = {} THEN 0
    ELSE LET i == CHOOSE i \in I : TRUE
         IN  BlackScholesAt(spread_data.strikes[i],
                            spread_data.option_types[i])[field]
                    * spread_data.quantities[i]
                + SpreadSum(spread_data, I \ {i}, field)

\* a long call and an equal-size short call at a higher strike
IsBullCallSpread(spread_data) ==
    /\ Len(spread_data.strikes) = 2
    /\ spread_data.option_types = <<1, 1>>
    /\ spread_data.strikes[1] < spread_data.strikes[2]
    /\ spread_data.quantities[1] > 0
    /\ spread_data.quantities[2] = -spread_data.quantities[1]

Triggered == pc = "returned" /\ op = "_check_automated_triggers"

\* the thresholds the metrics exceed, each by the name of its trigger:
\* buying-power usage 0.70, margin usage 0.50, max drawdown 0.10, sector
\* concentration 0.30, |delta| 100, |gamma| 50, |vega| 200 (the metrics
\* carry no position concentration)
ExceededThresholds(metrics) ==
    LET greek(g) == IF g \in DOMAIN metrics.portfolio_greeks
                    THEN metrics.portfolio_greeks[g] ELSE 0
        sectors == {metrics.sector_concentration[k] :
                        k \in DOMAIN metrics.sector_concentration}
    IN  {t \in {"buying_power", "margin_usage", "max_drawdown",
                "sector_concentration", "delta_exposure", "gamma_exposure",
                "vega_exposure"} :
            \/ t = "buying_power" /\ metrics.total_value > 0
                /\ (metrics.total_value - metrics.buying_power) * 100
                        > 70 * metrics.total_value
            \/ t = "margin_usage" /\ metrics.margin_usage > 50
            \/ t = "max_drawdown" /\ metrics.max_drawdown > 10
            \/ t = "sector_concentration" /\ \E c \in sectors : c > 30
            \/ t = "delta_exposure" /\ Abs(greek("delta")) > 100
            \/ t = "gamma_exposure" /\ Abs(greek("gamma")) > 50
            \/ t = "vega_exposure" /\ Abs(greek("vega")) > 200}

\* the triggers of the returned alerts
TriggersOf(alerts) == {alerts[i].triggered_by : i \in 1..Len(alerts)}

\* C18: the returned alerts are those of the thresholds the metrics exceed,
\* one for every exceeded threshold and none for anything else; the list
\* is empty exactly when no threshold is exceeded.
C18_AlertPerExceededThreshold ==
    Triggered
    => /\ TriggersOf(result) = ExceededThresholds(args.metrics)
       /\ (result = <<>>) <=> (ExceededThresholds(args.metrics) = {})

\* C18 for the four thresholds the code checks
C18_CheckedThresholds ==
    Triggered
    => /\ TriggersOf(result) =
            ExceededThresholds(args.metrics)
                \ {"max_drawdown", "gamma_exposure", "vega_exposure"}
       /\ Len(result) = Cardinality(TriggersOf(result))

(***************************************************************************)
(* Properties of the probability estimator and the position metrics        *)
(***************************************************************************)
PopReturned == pc = "returned" /\ op = "_calculate_pop"

MetricsReturned == pc = "returned" /\ op = "calculate_position_metrics"

InUnitInterval(q) == 0 <= q.num /\ q.num <= q.den

\* C1: every probability of profit the engine returns, from
\* calculate_position_metrics or from _calculate_pop, lies in [0,1].
C1_ProbabilityRange ==
    /\ PopReturned => InUnitInterval(result)
    /\ MetricsReturned => InUnitInterval(result.probability_profit)

\* C10: a position whose legs are missing or empty gets the neutral
\* metrics: value 0, probability of profit 0.5, expected value 0, all five
\* Greeks 0.
C10_NoLegsNeutral ==
    (MetricsReturned
        /\ ("legs" \notin DOMAIN args.position \/ args.position.legs = <<>>))
    => /\ result.theoretical_value = 0
       /\ result.probability_profit = [num |-> 1, den |-> 2]
       /\ result.expected_value = [num |-> 0, den |-> 1]
       /\ \A g \in {"delta", "gamma", "theta", "vega", "rho"} :
             result.greeks[g] = 0

C10_Witness ==
    /\ MetricsReturned
    /\ "legs" \in DOMAIN args.position
    /\ args.position.legs = <<>>
    /\ "max_loss" \in DOMAIN args.position
    /\ result.probability_profit = [num |-> 1, den |-> 2]

\* the estimator is handed one value of S, T, sigma and r per strike it
\* simulates (n of them), so that the simulation runs
Simulated(n) ==
    /\ PopReturned
    /\ \A a \in {args.S, args.T, args.sigma, args.r} :
            a.rank = 1 /\ Len(a.v) = n

\* the fraction of the simulated terminal prices that satisfy Hit
FractionOfDraws(Hit(_)) ==
    LET hits == {i \in 1..NSimulations :
                    Hit(TerminalPrice(PRNGKey(Seed), args.S.v[1], args.T.v[1],
                                      args.sigma.v[1], args.r.v[1], i))}
    IN  [num |-> Cardinality(hits), den |-> NSimulations]

SameFraction(q, f) == q.num * f.den = f.num * q.den

IsCreditSpread(position) ==
    "strategy_type" \in DOMAIN position /\ position.strategy_type = "CREDIT_SPREAD"

\* C12: for a credit spread with at least two strikes the probability of
\* profit is the fraction of simulated terminal prices between the short
\* strike (the first) and the long strike (the second), whichever of the
\* two is the larger.
C12_BetweenStrikes ==
    (Simulated(2) /\ IsCreditSpread(args.position) /\ Len(args.strikes) >= 2)
    => LET short_strike == args.strikes[1]
           long_strike  == args.strikes[2]
           lower == IF short_strike < long_strike THEN short_strike ELSE long_strike
           upper == IF short_strike < long_strike THEN long_strike ELSE short_strike
           Between(ST) == lower < ST /\ ST <= upper
       IN  SameFraction(result, FractionOfDraws(Between))

\* C12 where the code's formula gives it: the estimator simulates (one S,
\* T, sigma, r per strike) and the short strike is not below the long one
C12_ShortNotBelowLong ==
    (Simulated(2) /\ IsCreditSpread(args.position) /\ Len(args.strikes) >= 2
        /\ args.strikes[1] >= args.strikes[2])
    => LET Between(ST) == args.strikes[2] < ST /\ ST <= args.strikes[1]
       IN  SameFraction(result, FractionOfDraws(Between))

\* C13: the estimator returns 0.5 for an empty strikes array and for a
\* credit spread with fewer than two strikes.
C13_NeutralPop ==
    (PopReturned
        /\ (Len(args.strikes) = 0
              \/ (IsCreditSpread(args.position) /\ Len(args.strikes) < 2)))
    => result = [num |-> 1, den |-> 2]

\* a credit spread with one strike, and arrays the estimator could simulate
C13_Witness ==
    /\ Simulated(1)
    /\ IsCreditSpread(args.position)
    /\ Len(args.strikes) = 1
    /\ result = [num |-> 1, den |-> 2]

AllLegsOfKind(position, kind) ==
    \A i \in 1..Len(position.legs) : position.legs[i].option_type = kind

\* C14: for a position that is not a credit spread the probability of
\* profit is the fraction of simulated terminal prices above the break-even
\* price when its legs are calls and below it when its legs are puts.
C14_ProfitableDirection ==
    (Simulated(1) /\ Len(args.strikes) >= 1
        /\ "strategy_type" \in DOMAIN args.position
        /\ args.position.strategy_type # "CREDIT_SPREAD"
        /\ "break_even_price" \in DOMAIN args.position)
    => LET Above(ST) == ST > args.position.break_even_price
           Below(ST) == ST < args.position.break_even_price
       IN  /\ AllLegsOfKind(args.position, 1)
                => SameFraction(result, FractionOfDraws(Above))
           /\ AllLegsOfKind(args.position, -1)
                => SameFraction(result, FractionOfDraws(Below))

\* C14 for calls alone
C14_AboveBreakEven ==
    (Simulated(1) /\ Len(args.strikes) >= 1
        /\ "strategy_type" \in DOMAIN args.position
        /\ args.position.strategy_type # "CREDIT_SPREAD"
        /\ "break_even_price" \in DOMAIN args.position)
    => LET Above(ST) == ST > args.position.break_even_price
       IN  SameFraction(result, FractionOfDraws(Above))

\* the neutral metrics: value 0, POP 0.5, expected value 0, zero Greeks
NeutralMetrics ==
    [theoretical_value |-> 0, probability_profit |-> [num |-> 1, den |-> 2],
     expected_value |-> [num |-> 0, den |-> 1],
     greeks |-> [delta |-> 0, gamma |-> 0, theta |-> 0, vega |-> 0, rho |-> 0]]

HasLegs(position) == "legs" \in DOMAIN position /\ position.legs # <<>>

\* leg extraction, pricing, aggregation or the expected value raises: a
\* field of the position or of a leg is missing
RaisesOutsideEstimator(position) ==
    \/ {"underlying_price", "dte", "implied_volatility", "max_loss"}
            \ DOMAIN position # {}
    \/ \E i \in 1..Len(position.legs) :
            {"strike", "quantity", "option_type"} \ DOMAIN position.legs[i] # {}

\* probability estimation raises: the strategy kind is missing, or the
\* break-even price of a position that is not a credit spread
RaisesInEstimator(position) ==
    \/ "strategy_type" \notin DOMAIN position
    \/ /\ position.strategy_type # "CREDIT_SPREAD"
       /\ "break_even_price" \notin DOMAIN position

\* sum over the legs of the leg's own figure times its signed quantity
RECURSIVE LegSum(_, _, _)
LegSum(legs, I, field) ==
    IF I = {} THEN 0
    ELSE LET i == CHOOSE i \in I : TRUE
         IN  BlackScholesAt(legs[i].strike, legs[i].option_type)[field]
                    * legs[i].quantity
                + LegSum(legs, I \ {i}, field)

SolverReturned == pc = "returned" /\ op = "calculate_implied_volatility"

\* the guess after n Newton-Raphson updates of the guess 0.30
RECURSIVE Iterate(_, _)
Iterate(n, market_price) ==
    IF n = 0 THEN [finite |-> TRUE, percent |-> 30]
    ELSE newton_step(Iterate(n - 1, market_price), market_price)

\* C16: for every input the solver returns a value, after exactly 10
\* updates of the guess 0.30, and the value is the tenth iterate.
C16_TenUpdates ==
    SolverReturned
    => /\ ~result.raised
       /\ result.value.updates = 10
       /\ result.value.sigma_guess = Iterate(10, args.market_price.v[1])

\* C16 for arguments of rank 0
C16_TenUpdatesOfScalars ==
    (SolverReturned /\ \A k \in DOMAIN args : args[k].rank = 0)
    => /\ ~result.raised
       /\ result.value.updates = 10
       /\ result.value.sigma_guess = Iterate(10, args.market_price.v[1])

\* the solver has converged at the first guess, and has diverged
C16_ScalarCases ==
    /\ SolverReturned
    /\ args.market_price.rank = 0
    /\ \/ args.market_price.v[1] = 1423 /\ result.value.sigma_guess.finite
       \/ args.market_price.v[1] = 300 /\ ~result.value.sigma_guess.finite

\* the solver has returned the volatility, to 1e-3, that the kernel priced
\* the contract at
Recovered(known) ==
    /\ ~result.raised
    /\ result.value.sigma_guess.finite
    /\ 10 * Abs(result.value.sigma_guess.percent - known) <= 1

\* C27: the kernel's price of a contract at a known volatility of 5% to
\* 100%, handed to the solver with the contract's other parameters, gives
\* back that volatility within 1e-3.
C27_RoundTripRecoversVolatility ==
    SolverReturned
    => \A known \in KnownVolatilities :
          args.market_price.v[1] = PriceAndVega(known).price
          => Recovered(known)

\* C27 for arguments of rank 0
C27_RoundTripOfScalars ==
    (SolverReturned /\ \A k \in DOMAIN args : args[k].rank = 0)
    => \A known \in KnownVolatilities :
          args.market_price.v[1] = PriceAndVega(known).price
          => Recovered(known)

\* the price at 5% and the price at 100% have been handed to the solver as
\* numbers of rank 0, and the price at 20% as the kernel returns it, in an
\* array with the arrays the kernel was given
C27_ScalarCases ==
    /\ SolverReturned
    /\ args.market_price.rank = 0
    /\ \/ args.market_price.v[1] = PriceAndVega(5).price /\ Recovered(5)
       \/ args.market_price.v[1] = PriceAndVega(100).price /\ Recovered(100)

C27_ArrayCase ==
    /\ SolverReturned
    /\ \A k \in DOMAIN args : args[k].rank = 1
    /\ args.market_price.v = <<PriceAndVega(20).price>>
    /\ result.raised

(***************************************************************************)
(* Properties of _calculate_portfolio_metrics                              *)
(***************************************************************************)
Measured == pc = "returned" /\ op = "_calculate_portfolio_metrics"

\* the sum of the fractions of a map
RECURSIVE SumOfShares(_, _)
SumOfShares(shares, keys) ==
    IF keys = {} THEN Rat(0, 1)
    ELSE LET k == CHOOSE x \in keys : TRUE
         IN  RatAdd(shares[k], SumOfShares(shares, keys \ {k}))

\* the sum of the counts of a map
RECURSIVE SumOfCounts(_, _)
SumOfCounts(counts, keys) ==
    IF keys = {} THEN 0
    ELSE LET k == CHOOSE x \in keys : TRUE
         IN  counts[k] + SumOfCounts(counts, keys \ {k})

\* the positions' total current value
TotalHeld == SumCurrentValue(args.open_positions)

\* total_value and margin_used as the account gives them
AccountField(key) ==
    IF key \in DOMAIN args.account_data.fields
    THEN args.account_data.fields[key] ELSE 0

\* C28: the sector fractions sum to 1 when the positions' total current
\* value is positive and are all 0 when it is not; the strategy counts
\* sum to the number of open positions; margin usage is margin_used /
\* total_value when total_value is positive and 0 otherwise, and no
\* division by zero is made.
C28_MapsPartitionPortfolio ==
    Measured
    => LET sector_concentration == result.sector_concentration
           strategy_mix == result.strategy_mix
       IN  /\ TotalHeld > 0
                => SumOfShares(sector_concentration,
                               DOMAIN sector_concentration) = Rat(1, 1)
           /\ TotalHeld <= 0
                => \A k \in DOMAIN sector_concentration :
                      sector_concentration[k] = Rat(0, 1)
           /\ SumOfCounts(strategy_mix, DOMAIN strategy_mix)
                = Len(args.open_positions)
           /\ result.margin_usage.den > 0
           /\ \A k \in DOMAIN sector_concentration :
                  sector_concentration[k].den > 0
           /\ AccountField("total_value") > 0
                => result.margin_usage.num * AccountField("total_value")
                    = AccountField("margin_used") * result.margin_usage.den
           /\ AccountField("total_value") <= 0
                => result.margin_usage = Rat(0, 1)

\* two positions of the same strategy in two sectors, one of them short,
\* in an account with a quarter of its value used as margin
C28_Witness ==
    /\ Measured
    /\ Len(args.open_positions) = 2
    /\ DOMAIN result.sector_concentration = {"technology", "etf"}
    /\ result.sector_concentration["technology"] = Rat(-1, 1)
    /\ result.sector_concentration["etf"] = Rat(2, 1)
    /\ result.strategy_mix = [s \in {"credit_spread"} |-> 2]
    /\ result.margin_usage = Rat(1, 4)

\* positions whose values cancel, in an account without value
C28_WitnessNothingInvested ==
    /\ Measured
    /\ Len(args.open_positions) = 2
    /\ TotalHeld < 0
    /\ AccountField("total_value") = 0
    /\ AccountField("margin_used") = 250
    /\ result.margin_usage = Rat(0, 1)

(***************************************************************************)
(* State machine                                                           *)
(*                                                                         *)
(* Init is a call about to be made: the operation and its arguments.  The  *)
(* action of that operation runs it to completion and stores what it       *)
(* returned.                                                               *)
(***************************************************************************)
NoResult == [pending |-> TRUE]

\* the calls of assess_portfolio_risk: _get_market_conditions() is the
\* shipped constant, or whatever a caller has put in its place (the tests
\* patch it for the empty portfolio)
AssessCalls ==
    {[positions |-> p, market_data |-> DefaultMarketConditions] : p \in Portfolios}
        \cup {[positions |-> <<>>, market_data |-> m] :
                    m \in MarketConditions \cup {FailedMarketConditions}}

CombineCalls ==
    [deepseek_assessment :
        QualitativeAssessments \cup {FallbackAssessment, NoAssessment},
     automated_alerts : SeqsUpTo(RiskAlerts, MaxAlerts)]

RiskScoreCalls ==
    [thresholds : MonitorThresholds, risk_parameters : RiskParameters,
     greeks : GreekMaps, sector_conc : SectorMaps,
     margin_usage : MarginUsagePercents, position_count : 0..MaxPositions]

PopCalls ==
    {[position |-> WithLegs(p, l),
      strikes |-> [i \in 1..Len(l) |-> l[i].strike],
      S |-> m.S, T |-> m.T, sigma |-> m.sigma, r |-> m.r] :
        p \in PopPositions, l \in SeqsUpTo(PopLegs, MaxLegs), m \in MarketArrays}

MetricsCalls == [position : EnginePositions]

ManageCalls ==
    {[positions |-> [i \in 1..Len(pd) |-> pd[i][1]],
      decisions |-> [i \in 1..Len(pd) |-> pd[i][2]], now |-> CallMinute] :
        pd \in SeqsUpTo(ManagedPositions \X ManagementDecisions, MaxManaged)}

ApproveCalls ==
    {[risk_parameters |-> rp, opportunity |-> o,
      current_positions |-> OpenPositions(n)] :
        rp \in ApprovalParameters, o \in Opportunities, n \in 0..MaxOpen}

PortfolioMetricsCalls ==
    [account_data : AccountDatas,
     open_positions : SeqsUpTo(HeldPositions, MaxHeld)]

KernelCalls ==
    {Batch(c) : c \in SeqsUpTo(Contracts, MaxBatch) \ {<<>>}}

SpreadCalls ==
    {[spread_data |-> SpreadData(l)] :
        l \in SeqsUpTo(SpreadLegs, MaxLegs) \ {<<>>}}

TriggerCalls ==
    [thresholds : {DefaultThresholds}, metrics : PortfolioMetrics,
     open_positions : TriggerPositions, now : {0}]

\* no caller of the estimator is inside a call
IdleCallers == [c \in Callers |-> [pc |-> "idle"]]

\* the orchestrator after __init__: no positions, opportunities or alerts,
\* no thread started
IdleOrchestrator ==
    /\ account_positions = {}
    /\ opportunity_queue = <<>>
    /\ risk_alerts = <<>>
    /\ workers = <<>>
    /\ handled = <<>>

\* the monitor's fields after __init__
FreshMonitor ==
    /\ active_alerts = NoAlerts
    /\ alert_history = NoAlerts
    /\ risk_trend = <<>>
    /\ last_risk_assessment = NoAssessment
    /\ clock = 0

Init ==
    /\ pc = "called"
    /\ result = NoResult
    /\ callers = IdleCallers
    /\ history = {}
    /\ FreshMonitor
    /\ IdleOrchestrator
    /\ \/ op = "assess_portfolio_risk" /\ args \in AssessCalls
       \/ op = "_combine_risk_assessments" /\ args \in CombineCalls
       \/ op = "_calculate_risk_score" /\ args \in RiskScoreCalls
       \/ op = "_calculate_pop" /\ args \in PopCalls
       \/ op = "calculate_position_metrics" /\ args \in MetricsCalls
       \/ op = "calculate_implied_volatility" /\ args \in IVCalls
       \/ op = "_check_automated_triggers" /\ args \in TriggerCalls
       \/ op = "calculate_spread_greeks" /\ args \in SpreadCalls
       \/ op = "_black_scholes_with_greeks" /\ args \in KernelCalls
       \/ op = "manage_all_positions" /\ args \in ManageCalls
       \/ op = "approve_trade" /\ args \in ApproveCalls
       \/ op = "_calculate_portfolio_metrics" /\ args \in PortfolioMetricsCalls

\* one call of assess_portfolio_risk(positions)
AssessPortfolioRisk ==
    /\ pc = "called"
    /\ op = "assess_portfolio_risk"
    /\ result' = assess_portfolio_risk(args.positions, args.market_data)
    /\ pc' = "returned"
    /\ UNCHANGED <<op, args, outside_call>>

\* one call of _combine_risk_assessments(deepseek_assessment, automated_alerts)
CombineRiskAssessments ==
    /\ pc = "called"
    /\ op = "_combine_risk_assessments"
    /\ result' \in _combine_risk_assessments(args.deepseek_assessment,
                                             args.automated_alerts)
    /\ pc' = "returned"
    /\ UNCHANGED <<op, args, outside_call>>

\* one call of _calculate_risk_score(greeks, sector_conc, margin_usage,
\* position_count)
CalculateRiskScore ==
    /\ pc = "called"
    /\ op = "_calculate_risk_score"
    /\ result' = _calculate_risk_score(args.thresholds, args.risk_parameters,
                    args.greeks, args.sector_conc, args.margin_usage,
                    args.position_count)
    /\ pc' = "returned"
    /\ UNCHANGED <<op, args, outside_call>>

\* one call of _calculate_pop(position, S, strikes, T, sigma, r)
CalculatePop ==
    /\ pc = "called"
    /\ op = "_calculate_pop"
    /\ result' = _calculate_pop(args.position, args.S, args.strikes, args.T,
                                args.sigma, args.r)
    /\ pc' = "returned"
    /\ UNCHANGED <<op, args, outside_call>>

\* one call of calculate_position_metrics(position)
CalculatePositionMetrics ==
    /\ pc = "called"
    /\ op = "calculate_position_metrics"
    /\ result' = calculate_position_metrics(args.position)
    /\ pc' = "returned"
    /\ UNCHANGED <<op, args, outside_call>>

\* one call of calculate_implied_volatility(market_price, S, K, T, r,
\* option_type)
CalculateImpliedVolatility ==
    /\ pc = "called"
    /\ op = "calculate_implied_volatility"
    /\ result' = calculate_implied_volatility(args.market_price, args.S,
                    args.K, args.T, args.r, args.option_type)
    /\ pc' = "returned"
    /\ UNCHANGED <<op, args, outside_call>>

\* one call of _black_scholes_with_greeks(S, K, T, r, sigma, option_type)
BlackScholesWithGreeks ==
    /\ pc = "called"
    /\ op = "_black_scholes_with_greeks"
    /\ result' = _black_scholes_with_greeks(args.S, args.K, args.T, args.r,
                    args.sigma, args.option_type)
    /\ pc' = "returned"
    /\ UNCHANGED <<op, args, outside_call>>

\* one call of _calculate_portfolio_metrics(account_data, open_positions)
CalculatePortfolioMetrics ==
    /\ pc = "called"
    /\ op = "_calculate_portfolio_metrics"
    /\ result' = _calculate_portfolio_metrics(args.account_data,
                                              args.open_positions)
    /\ pc' = "returned"
    /\ UNCHANGED <<op, args, outside_call>>

\* one call of manage_all_positions(positions)
ManageAllPositions ==
    /\ pc = "called"
    /\ op = "manage_all_positions"
    /\ result' = manage_all_positions(args.positions, args.decisions, args.now)
    /\ pc' = "returned"
    /\ UNCHANGED <<op, args, outside_call>>

\* one call of approve_trade(opportunity, current_positions)
ApproveTrade ==
    /\ pc = "called"
    /\ op = "approve_trade"
    /\ result' = approve_trade(args.risk_parameters, args.opportunity,
                               args.current_positions)
    /\ pc' = "returned"
    /\ UNCHANGED <<op, args, outside_call>>

\* one call of calculate_spread_greeks(spread_data)
CalculateSpreadGreeks ==
    /\ pc = "called"
    /\ op = "calculate_spread_greeks"
    /\ result' = calculate_spread_greeks(args.spread_data)
    /\ pc' = "returned"
    /\ UNCHANGED <<op, args, outside_call>>

\* one call of _check_automated_triggers(metrics, open_positions)
CheckAutomatedTriggers ==
    /\ pc = "called"
    /\ op = "_check_automated_triggers"
    /\ result' = _check_automated_triggers(args.thresholds, args.metrics,
                    args.open_positions, args.now)
    /\ pc' = "returned"
    /\ UNCHANGED <<op, args, outside_call>>

Next ==
    \/ BlackScholesWithGreeks
    \/ CalculatePortfolioMetrics
    \/ ApproveTrade
    \/ ManageAllPositions
    \/ AssessPortfolioRisk
    \/ CheckAutomatedTriggers
    \/ CalculateSpreadGreeks
    \/ CalculateImpliedVolatility
    \/ CalculatePop
    \/ CalculatePositionMetrics
    \/ CalculateRiskScore
    \/ CombineRiskAssessments

Spec == Init /\ [][Next]_vars

(***************************************************************************)
(* Concurrent callers of monte_carlo_probability                           *)
(*                                                                         *)
(* A caller enters the call and builds its key, runs the simulation with   *)
(* that key, and returns.  The steps of different callers interleave.      *)
(***************************************************************************)
EstimatorInit ==
    /\ op = "monte_carlo_probability"
    /\ args = <<>>
    /\ pc = "concurrent"
    /\ result = NoResult
    /\ callers = IdleCallers
    /\ history = {}
    /\ FreshMonitor
    /\ IdleOrchestrator

\* caller c calls monte_carlo_probability: key = random.PRNGKey(42)
MonteCarloCall(c) ==
    /\ callers[c].pc = "idle"
    /\ Cardinality(history) < MaxHistory
    /\ \E a \in EstimatorInputs :
          callers' = [callers EXCEPT ![c] =
                        [pc |-> "keyed", args |-> a, key |-> PRNGKey(Seed)]]
    /\ UNCHANGED <<history, single_call>>

\* caller c runs vmap(single_simulation) with its key
MonteCarloSimulate(c) ==
    /\ callers[c].pc = "keyed"
    /\ LET a == callers[c].args
       IN  callers' = [callers EXCEPT ![c] =
                [pc |-> "simulated", args |-> a, key |-> callers[c].key,
                 result |-> SimulateLanes(callers[c].key, a.S, a.K, a.T,
                                          a.sigma, a.r, NSimulations)]]
    /\ UNCHANGED <<history, single_call>>

\* caller c returns the probabilities
MonteCarloReturn(c) ==
    /\ callers[c].pc = "simulated"
    /\ history' = history \cup
            {[op |-> "monte_carlo_probability", args |-> callers[c].args,
              result |-> callers[c].result]}
    /\ callers' = [callers EXCEPT ![c] = [pc |-> "idle"]]
    /\ UNCHANGED single_call

EstimatorNext ==
    \E c \in Callers :
        \/ MonteCarloCall(c)
        \/ MonteCarloSimulate(c)
        \/ MonteCarloReturn(c)

EstimatorSpec == EstimatorInit /\ [][EstimatorNext]_vars

(***************************************************************************)
(* A monitor in use: evaluations between alerts, trend updates and days    *)
(*                                                                         *)
(* An evaluation is a call of assess_portfolio_risk or of                  *)
(* _check_automated_triggers; when it has returned, its inputs and result  *)
(* are put on record, in order.  Between evaluations the last assessment   *)
(* is raised                                                               *)
(* as an alert or added to the trend, the active alerts are cleared, and   *)
(* the clock moves on.                                                     *)
(***************************************************************************)
MonitorAssessCalls ==
    {a \in AssessCalls :
        /\ a.market_data = DefaultMarketConditions
        /\ \A i \in 1..Len(a.positions) :
              /\ a.positions[i] \in PositionRecords
              /\ "strategy_type" \in DOMAIN a.positions[i]
              /\ a.positions[i].quantity = 1
              /\ a.positions[i].entry_price = 4
              /\ a.positions[i].strategy_type =
                    (IF i = 1 THEN "theta_decay" ELSE "credit_spread")
        /\ Len(a.positions) <= 2}

MonitorTriggerCalls ==
    {[thresholds |-> t.thresholds, metrics |-> t.metrics,
      open_positions |-> t.open_positions, now |-> clock] :
        t \in {u \in TriggerCalls :
                /\ u.metrics.total_value = 1000
                /\ u.metrics.buying_power \in {200, 1000}
                /\ u.metrics.margin_usage = 25
                /\ u.metrics.max_drawdown = 5
                /\ u.metrics.portfolio_greeks = [delta |-> 50, gamma |-> 0, vega |-> 0]
                /\ DOMAIN u.metrics.sector_concentration = {}
                /\ u.open_positions = <<>>}}

\* the risk_score handed to _update_risk_trend
TrendScores == {[num |-> 1, den |-> 2]}

MonitorInit ==
    /\ op = "assess_portfolio_risk"
    /\ args \in MonitorAssessCalls
    /\ pc = "called"
    /\ result = NoResult
    /\ callers = IdleCallers
    /\ history = <<>>
    /\ FreshMonitor
    /\ IdleOrchestrator

\* the next evaluation is called
MonitorCall ==
    /\ pc = "idle"
    /\ Len(history) < MaxHistory
    /\ \/ op' = "assess_portfolio_risk" /\ args' \in MonitorAssessCalls
       \/ op' = "_check_automated_triggers" /\ args' \in MonitorTriggerCalls
    /\ pc' = "called"
    /\ result' = NoResult
    /\ UNCHANGED outside_call

\* the inputs of an evaluation: its arguments other than the clock reading
InputsOf(a) == [k \in DOMAIN a \ {"now"} |-> a[k]]

\* the evaluation that has returned is put on record
MonitorReturn ==
    /\ pc = "returned"
    /\ history' = Append(history,
            [op |-> op, inputs |-> InputsOf(args), result |-> result])
    /\ pc' = "idle"
    /\ UNCHANGED <<op, args, result, callers, monitor_fields, clock, orchestrator>>

\* _trigger_risk_alert(assessment, metrics) with the last assessment
TriggerRiskAlert ==
    /\ pc = "idle"
    /\ op = "assess_portfolio_risk"
    /\ Len(alert_history) < MaxRecorded
    /\ LET alert == _trigger_risk_alert(result, clock)
       IN  /\ active_alerts' = Append(active_alerts, alert)
           /\ alert_history' = Append(alert_history, alert)
    /\ UNCHANGED <<op, args, pc, result, callers, history, risk_trend, last_risk_assessment, clock, orchestrator>>

\* _update_risk_trend(assessment, risk_score) with the last assessment
UpdateRiskTrend ==
    /\ pc = "idle"
    /\ op = "assess_portfolio_risk"
    /\ \E risk_score \in TrendScores :
          risk_trend' = _update_risk_trend(risk_trend, result, risk_score, clock)
    /\ Len(risk_trend') <= MaxRecorded
    /\ UNCHANGED <<op, args, pc, result, callers, history, active_alerts, alert_history, last_risk_assessment, clock, orchestrator>>

\* clear_resolved_alerts()
ClearResolvedAlerts ==
    /\ pc = "idle"
    /\ active_alerts # NoAlerts
    /\ active_alerts' = NoAlerts
    /\ UNCHANGED <<op, args, pc, result, callers, history, alert_history, risk_trend, last_risk_assessment, clock, orchestrator>>

\* days pass
Tick ==
    /\ pc = "idle"
    /\ clock + TrendDays <= MaxClock
    /\ clock' = clock + TrendDays
    /\ UNCHANGED <<op, args, pc, result, callers, history, monitor_fields, orchestrator>>

MonitorNext ==
    \/ MonitorCall
    \/ AssessPortfolioRisk
    \/ CheckAutomatedTriggers
    \/ MonitorReturn
    \/ TriggerRiskAlert
    \/ UpdateRiskTrend
    \/ ClearResolvedAlerts
    \/ Tick

MonitorSpec == MonitorInit /\ [][MonitorNext]_vars

(***************************************************************************)
(* Properties of a monitor in use                                          *)
(***************************************************************************)
\* what an evaluation reports: levels, severities, concerns and
\* recommendations, without the time stamps of the alerts
Outcome(h) ==
    IF h.op = "assess_portfolio_risk"
    THEN [alert_level |-> h.result.alert_level, message |-> h.result.message,
          concerns |-> h.result.concerns,
          recommendations |-> h.result.recommendations]
    ELSE [i \in 1..Len(h.result) |->
            [level |-> h.result[i].level, message |-> h.result[i].message,
             triggered_by |-> h.result[i].triggered_by,
             actions |-> h.result[i].actions]]

\* evaluations with the same inputs have reported the same
SameInputsSameOutcome ==
    \A i, j \in 1..Len(history) :
        LET x == history[i]
            y == history[j]
        IN  (x.op = y.op /\ x.inputs = y.inputs) => Outcome(x) = Outcome(y)

\* an evaluation leaves the monitor's fields as they were
EvaluationLeavesFields ==
    [][(pc = "called" /\ pc' = "returned") => UNCHANGED monitor_fields]_vars

\* C19: whatever evaluations, alerts and trend updates came before, an
\* evaluation reports the same levels, severities, concerns and
\* recommendations for the same inputs, and no evaluation changes
\* active_alerts, alert_history, risk_trend or last_risk_assessment.
C19_NoHysteresis == []SameInputsSameOutcome /\ EvaluationLeavesFields

\* the triggers were evaluated twice on the same metrics, the second time
\* while an alert raised in between was active and the trend had a point
C19_Witness ==
    /\ active_alerts # NoAlerts
    /\ risk_trend # <<>>
    /\ \E i, j \in 1..Len(history) :
          LET x == history[i]
              y == history[j]
          IN  /\ i < j
              /\ x.op = "_check_automated_triggers"
              /\ y.op = "_check_automated_triggers"
              /\ x.inputs = y.inputs
              /\ x.result # <<>>
              /\ y.result # <<>>
              /\ x.result[1].timestamp <= active_alerts[1].timestamp
              /\ active_alerts[1].timestamp < y.result[1].timestamp

(***************************************************************************)
(* DualAccountTradingOrchestrator (main.py)                                *)
(*                                                                         *)
(* account_positions is the set of the keys of the positions map of one    *)
(* account, self.open_positions[account_type]: position 0 is loaded at the *)
(* start, the others are the trades executed since.  A thread that         *)
(* iterates over the map holds an iterator: `size` is the size of the map  *)
(* when the iterator was made, `visited` the keys it has yielded.  The     *)
(* iterator raises RuntimeError at its next step when the size of the map  *)
(* is no longer `size`.  A step of a thread is atomic, the steps of the    *)
(* threads interleave in every order.                                      *)
(***************************************************************************)
\* the position of tasty_api.get_positions()
LoadedPosition == 0

\* the alerts, numbered as they are raised
AlertIds == 1..MaxRaised

\* the alert levels assess_portfolio_risk gives for a portfolio with
\* positions
AssessedLevels == {0, 3, 5, 8}

\* the alert levels it gives for an empty portfolio
EmptyPortfolioLevels == {0, 1}

\* decision.action_type of the advisor and of the emergency check
ManagedActionTypes == {"CLOSE", "ROLL", "HOLD"}

SleepingTradeManager ==
    [pc |-> "sleeping", size |-> 0, visited |-> {}, actions |-> <<>>]

SleepingRiskMonitor(raised) ==
    [pc |-> "sleeping", size |-> 0, visited |-> {}, alert_level |-> 0,
     raised |-> raised]

IdleMain(opened) == [pc |-> "idle", alert |-> 0, opened |-> opened]

\* start_continuous_operation: the positions are loaded, the threads start
OrchestratorInit ==
    /\ op = "start_continuous_operation"
    /\ args = <<>>
    /\ pc = "running"
    /\ result = NoResult
    /\ callers = IdleCallers
    /\ history = {}
    /\ FreshMonitor
    /\ account_positions \in {{}, {LoadedPosition}}
    /\ opportunity_queue = <<>>
    /\ risk_alerts = <<>>
    /\ workers = [tm |-> SleepingTradeManager, rm |-> SleepingRiskMonitor(0),
                  main |-> IdleMain(0)]
    /\ handled = [a \in AlertIds |-> 0]

\* what a step of the orchestrator leaves alone
engine == <<op, args, pc, result, callers, history, monitor_fields, clock>>

\* the iterator of a thread can take a step: the map has the size it had
IteratorValid(w) == Cardinality(account_positions) = workers[w].size

\* the keys the iterator of a thread has yet to yield
Unvisited(w) == account_positions \ workers[w].visited

\* opportunity_scanning_loop: self.opportunity_queue = prioritized[:10]
OpportunityScanning ==
    /\ opportunity_queue = <<>>
    /\ opportunity_queue' = <<"SPY">>
    /\ UNCHANGED <<engine, account_positions, risk_alerts, workers, handled>>

\* process_opportunity_queue: a trade is approved and executed, and put in
\* the map under a new position id
ProcessOpportunityQueue ==
    /\ workers.main.pc = "idle"
    /\ opportunity_queue # <<>>
    /\ workers.main.opened < MaxOpened
    /\ LET position_id == workers.main.opened + 1
       IN  /\ account_positions' = account_positions \cup {position_id}
           /\ workers' = [workers EXCEPT !.main.opened = position_id]
    /\ UNCHANGED <<engine, opportunity_queue, risk_alerts, handled>>

\* process_risk_alerts: alert = self.risk_alerts.pop(0)
ProcessRiskAlerts ==
    /\ workers.main.pc = "idle"
    /\ risk_alerts # <<>>
    /\ risk_alerts' = Tail(risk_alerts)
    /\ workers' = [workers EXCEPT !.main.pc = "handling",
                                  !.main.alert = Head(risk_alerts).id]
    /\ UNCHANGED <<engine, account_positions, opportunity_queue, handled>>

\* one call of handle_risk_alert(alert); for an alert of level 8 or more it
\* raises AttributeError after the notification (get_protective_actions
\* reads alert.level), and the loop of the calling thread goes on
handle_risk_alert(alert) ==
    handled' = [handled EXCEPT ![alert] = @ + 1]

\* process_risk_alerts: self.handle_risk_alert(alert)
MainHandleRiskAlert ==
    /\ workers.main.pc = "handling"
    /\ handle_risk_alert(workers.main.alert)
    /\ workers' = [workers EXCEPT !.main = IdleMain(workers.main.opened)]
    /\ UNCHANGED <<engine, account_positions, opportunity_queue, risk_alerts>>

\* the levels an assessment of the risk-monitoring thread may give
LevelsToRaise(levels) ==
    IF workers.rm.raised < MaxRaised THEN levels ELSE {0}

\* risk_monitoring_loop: assess_portfolio_risk(account_positions) is
\* called; an empty portfolio is assessed without a loop over it
RiskMonitoringBegins ==
    /\ workers.rm.pc = "sleeping"
    /\ \/ /\ account_positions = {}
          /\ \E level \in LevelsToRaise(EmptyPortfolioLevels) :
                workers' = [workers EXCEPT !.rm.pc = "assessed",
                                           !.rm.alert_level = level]
       \/ /\ account_positions # {}
          /\ workers' = [workers EXCEPT
                            !.rm.pc = "iterating",
                            !.rm.size = Cardinality(account_positions),
                            !.rm.visited = {}]
    /\ UNCHANGED <<engine, account_positions, opportunity_queue, risk_alerts,
                   handled>>

\* for position_id, position in positions.items(): the next position
RiskMonitoringVisits ==
    /\ workers.rm.pc = "iterating"
    /\ IteratorValid("rm")
    /\ \E position_id \in Unvisited("rm") :
          workers' = [workers EXCEPT !.rm.visited = @ \cup {position_id}]
    /\ UNCHANGED <<engine, account_positions, opportunity_queue, risk_alerts,
                   handled>>

\* the map has changed size: RuntimeError, and assess_portfolio_risk
\* returns the assessment of its except clause, of level 0
RiskMonitoringIterationFails ==
    /\ workers.rm.pc = "iterating"
    /\ ~IteratorValid("rm")
    /\ workers' = [workers EXCEPT !.rm.pc = "assessed", !.rm.alert_level = 0]
    /\ UNCHANGED <<engine, account_positions, opportunity_queue, risk_alerts,
                   handled>>

\* the loop over the positions ends and the assessment is returned
RiskMonitoringIterationEnds ==
    /\ workers.rm.pc = "iterating"
    /\ IteratorValid("rm")
    /\ Unvisited("rm") = {}
    /\ \E level \in LevelsToRaise(AssessedLevels) :
          workers' = [workers EXCEPT !.rm.pc = "assessed",
                                     !.rm.alert_level = level]
    /\ UNCHANGED <<engine, account_positions, opportunity_queue, risk_alerts,
                   handled>>

\* if risk_assessment.alert_level > 0: self.risk_alerts.append(...)
RiskMonitoringAppendsAlert ==
    /\ workers.rm.pc = "assessed"
    /\ IF workers.rm.alert_level > 0
       THEN LET alert == workers.rm.raised + 1
            IN  /\ risk_alerts' =
                      Append(risk_alerts,
                             [id |-> alert, alert_level |-> workers.rm.alert_level])
                /\ workers' = [workers EXCEPT !.rm.pc = "handling",
                                              !.rm.raised = alert]
       ELSE /\ workers' = [workers EXCEPT
                              !.rm = SleepingRiskMonitor(workers.rm.raised)]
            /\ UNCHANGED risk_alerts
    /\ UNCHANGED <<engine, account_positions, opportunity_queue, handled>>

\* risk_monitoring_loop: self.handle_risk_alert(risk_assessment)
RiskMonitoringHandlesAlert ==
    /\ workers.rm.pc = "handling"
    /\ handle_risk_alert(workers.rm.raised)
    /\ workers' = [workers EXCEPT !.rm = SleepingRiskMonitor(workers.rm.raised)]
    /\ UNCHANGED <<engine, account_positions, opportunity_queue, risk_alerts>>

\* trade_management_loop: manage_all_positions(account_positions) is called
\* on a map with positions
TradeManagementBegins ==
    /\ workers.tm.pc = "sleeping"
    /\ account_positions # {}
    /\ workers' = [workers EXCEPT
                      !.tm.pc = "iterating",
                      !.tm.size = Cardinality(account_positions)]
    /\ UNCHANGED <<engine, account_positions, opportunity_queue, risk_alerts,
                   handled>>

\* for position_id, pos in positions.items(): the next position is skipped
\* as new, or an action for it is put on the list
TradeManagementVisits ==
    /\ workers.tm.pc = "iterating"
    /\ IteratorValid("tm")
    /\ \E position_id \in Unvisited("tm") :
          \/ workers' = [workers EXCEPT !.tm.visited = @ \cup {position_id}]
          \/ \E action_type \in ManagedActionTypes :
                workers' = [workers EXCEPT
                    !.tm.visited = @ \cup {position_id},
                    !.tm.actions = Append(@, [position_id |-> position_id,
                                              action_type |-> action_type])]
    /\ UNCHANGED <<engine, account_positions, opportunity_queue, risk_alerts,
                   handled>>

\* the map has changed size: RuntimeError out of manage_all_positions, the
\* except clause of the loop logs it and the thread sleeps
TradeManagementIterationFails ==
    /\ workers.tm.pc = "iterating"
    /\ ~IteratorValid("tm")
    /\ workers' = [workers EXCEPT !.tm = SleepingTradeManager]
    /\ UNCHANGED <<engine, account_positions, opportunity_queue, risk_alerts,
                   handled>>

\* manage_all_positions returns its actions
TradeManagementIterationEnds ==
    /\ workers.tm.pc = "iterating"
    /\ IteratorValid("tm")
    /\ Unvisited("tm") = {}
    /\ workers' = [workers EXCEPT !.tm.pc = "executing"]
    /\ UNCHANGED <<engine, account_positions, opportunity_queue, risk_alerts,
                   handled>>

\* the map after execute_management_action(action) has succeeded
PositionsAfter(positions, action) ==
    IF action.action_type = "CLOSE" THEN positions \ {action.position_id}
    ELSE IF action.action_type \in {"ROLL", "ADJUST"}
    THEN positions \cup {action.position_id}
    ELSE positions

\* trade_management_loop: self.execute_management_action(action), which
\* succeeds or fails
ExecuteManagementAction ==
    /\ workers.tm.pc = "executing"
    /\ workers.tm.actions # <<>>
    /\ \E success \in BOOLEAN :
          account_positions' =
              IF success
              THEN PositionsAfter(account_positions, Head(workers.tm.actions))
              ELSE account_positions
    /\ workers' = [workers EXCEPT !.tm.actions = Tail(@)]
    /\ UNCHANGED <<engine, opportunity_queue, risk_alerts, handled>>

\* time.sleep(300)
TradeManagementSleeps ==
    /\ workers.tm.pc = "executing"
    /\ workers.tm.actions = <<>>
    /\ workers' = [workers EXCEPT !.tm = SleepingTradeManager]
    /\ UNCHANGED <<engine, account_positions, opportunity_queue, risk_alerts,
                   handled>>

OrchestratorNext ==
    \/ OpportunityScanning
    \/ ProcessOpportunityQueue
    \/ ProcessRiskAlerts
    \/ MainHandleRiskAlert
    \/ RiskMonitoringBegins
    \/ RiskMonitoringVisits
    \/ RiskMonitoringIterationFails
    \/ RiskMonitoringIterationEnds
    \/ RiskMonitoringAppendsAlert
    \/ RiskMonitoringHandlesAlert
    \/ TradeManagementBegins
    \/ TradeManagementVisits
    \/ TradeManagementIterationFails
    \/ TradeManagementIterationEnds
    \/ ExecuteManagementAction
    \/ TradeManagementSleeps

OrchestratorSpec == OrchestratorInit /\ [][OrchestratorNext]_vars

\* the main coordination loop comes round to process_risk_alerts every few
\* seconds and a call of handle_risk_alert returns or raises; the
\* risk-monitoring thread is scheduled
OrchestratorFairSpec ==
    /\ OrchestratorSpec
    /\ WF_vars(ProcessRiskAlerts)
    /\ WF_vars(MainHandleRiskAlert)
    /\ WF_vars(RiskMonitoringAppendsAlert)
    /\ WF_vars(RiskMonitoringHandlesAlert)

(***************************************************************************)
(* Properties of the orchestrator                                          *)
(***************************************************************************)
\* the threads that iterate over the positions map
IteratingWorkers == {"tm", "rm"}

\* the map does not change in a step during which a thread stays inside
\* its loop over it
NoChangeUnderIteration ==
    [][\A w \in IteratingWorkers :
            (workers[w].pc = "iterating" /\ workers'[w].pc = "iterating")
            => account_positions' = account_positions]_vars

\* the map a thread is iterating over has the size it had when the loop
\* began
SizeKeptUnderIteration ==
    \A w \in IteratingWorkers :
        workers[w].pc = "iterating" => IteratorValid(w)

\* C29: while the trade-management or the risk-monitoring thread iterates
\* over the account's positions map no other thread inserts into it or
\* removes from it, and no loop runs over a map that has changed size,
\* whatever the interleaving of the threads.
C29_NoMutationDuringIteration ==
    []SizeKeptUnderIteration /\ NoChangeUnderIteration

\* the trade-management thread is in its loop over a map that a trade of
\* the main thread has made larger
C29_MainInsertsUnderIteration ==
    /\ workers.tm.pc = "iterating"
    /\ workers.tm.size = 1
    /\ workers.tm.visited = {}
    /\ account_positions = {LoadedPosition, 1}

\* the risk-monitoring thread is in its loop over a map from which the
\* trade-management thread has closed a position
C29_CloseUnderAssessment ==
    /\ workers.rm.pc = "iterating"
    /\ workers.rm.size = 1
    /\ workers.tm.pc = "executing"
    /\ account_positions = {}

\* alert a is on the list of risk alerts
Queued(a) == \E i \in 1..Len(risk_alerts) : risk_alerts[i].id = a

\* alert a has been produced by the risk-monitoring thread
Produced(a) == a <= workers.rm.raised

\* no alert is handled twice
HandledAtMostOnce == \A a \in AlertIds : handled[a] <= 1

\* every alert produced is handled
EveryAlertHandled == \A a \in AlertIds : Produced(a) ~> (handled[a] >= 1)

\* every alert on the list is taken off it
EveryAlertRemoved == \A a \in AlertIds : Queued(a) ~> ~Queued(a)

\* C30: every assessment of level above 0 that the risk-monitoring thread
\* produces is passed to handle_risk_alert exactly once, and every alert
\* appended to risk_alerts is eventually removed from it by the main
\* thread, whatever the interleaving of the two.
C30_HandledOnceAndRemoved ==
    []HandledAtMostOnce /\ EveryAlertHandled /\ EveryAlertRemoved

\* C30 without "exactly once": every alert is handled and is taken off the
\* list, and no alert is handled more than twice
C30_HandledAndRemoved ==
    /\ [](\A a \in AlertIds : handled[a] <= 2)
    /\ EveryAlertHandled
    /\ EveryAlertRemoved

\* an alert has been handled by the risk-monitoring thread and by the main
\* thread
C30_HandledTwice ==
    \E a \in AlertIds : handled[a] = 2 /\ ~Queued(a)

(***************************************************************************)
(* Properties of concurrent estimations                                    *)
(***************************************************************************)
\* the estimations that have produced their probabilities: the returned
\* ones and those about to return
Estimations ==
    {[args |-> h.args, result |-> h.result] : h \in history}
        \cup {[args |-> callers[c].args, result |-> callers[c].result] :
                c \in {d \in Callers : callers[d].pc = "simulated"}}

\* C15: any two estimations with the same inputs give the same
\* probabilities, whatever estimations returned before them or run
\* interleaved with them.
C15_Deterministic ==
    \A x, y \in Estimations : x.args = y.args => x.result = y.result

\* two interleaved estimations with the same inputs after other estimations
\* have returned
C15_Witness ==
    /\ callers[1].pc = "simulated"
    /\ callers[2].pc = "simulated"
    /\ callers[1].args = callers[2].args
    /\ ~callers[1].result.raised
    /\ callers[1].result = callers[2].result
    /\ \E h \in history : h.args # callers[1].args


====
